---- MODULE Spec2Model ----
(***************************************************************************)
(* A model of the ursim robot simulator (src/src/ursim/core.py) with its   *)
(* data logger (src/src/zoombot/datalog.py) and the Transform2D value type *)
(* (src/robosim_core.py).                                                  *)
(*                                                                         *)
(* Real quantities are fixed-point integers:                               *)
(*   speed          mm/s                                                   *)
(*   time           ms                                                     *)
(*   integrator     um            (mm/s * ms)                              *)
(*   voltage        0.1 mV                                                 *)
(*   force          mN                                                     *)
(*   torque         uN*m          (mN * mm)                                *)
(*   length         0.1 mm                                                 *)
(*   angular rate   1/230 rad/s   ((r - l) / (2*ROBOT_WHEEL_OFFSET) with   *)
(*                                 r, l in mm/s is then r - l exactly)     *)
(*   angle          AU = 1e-6/0.23 rad  (angular rate * ms)                *)
(*   bump angle     degrees       (BUMP_ANGLE_RANGES before "* DEG")       *)
(*   distance       um            (b2Distance result)                      *)
(* Arithmetic is exact on these grids; the rounding of float32 stores is   *)
(* below their resolution and is not modelled.                             *)
(***************************************************************************)
EXTENDS Integers, Sequences, FiniteSets, TLC

(***************************************************************************)
(* Bounds of the model.                                                    *)
(***************************************************************************)
\* at most MaxCalls structural calls (add_*, set_dims, reset, clear, load_svg,
\* initialize_robot) in a run; this also caps modification_counter
MaxCalls == 2
\* at most MaxUpdates RoboSim.update() calls in a run; caps sim_ticks
MaxUpdates == 2
\* at most MaxRobotTicks Robot.sim_update calls in a run of the robot harness
MaxRobotTicks == 7
\* at most MaxCommands commands (desired velocity, motors on/off, initialize)
\* in a run of the robot harness
MaxCommands == 2
\* at most MaxBumpTicks Robot.sim_update calls in a run of the bump harness
MaxBumpTicks == 2
\* at most MaxBuildCalls structural calls in a run that only builds
MaxBuildCalls == 3
\* at most MaxObsCalls calls (add_observer, load_svg, reset) in a run with
\* observers
MaxObsCalls == 3
\* at most MaxLogCalls calls of the DataLog in a run of the log harness
MaxLogCalls == 7
\* at most MaxVarCalls add_variables calls in a run of the variables harness
MaxVarCalls == 3
\* at most MaxFilterCalls iir_filter calls in a run of the filter harness
MaxFilterCalls == 4
\* the history h_held counts the bump evaluations an object has stayed
\* through up to MaxHeld
MaxHeld == 2

(***************************************************************************)
(* Program constants (core.py), in the units above.                        *)
(***************************************************************************)
ROBOT_BASE_MASS == 2500             \* g
ROBOT_WHEEL_RADIUS == 35            \* mm
MOTOR_VEL_KP == 1000                \* 0.1 mV per mm/s
MOTOR_VEL_KI == 2                   \* 0.1 mV per um
MOTOR_VEL_INT_MAX == 50000          \* um
WHEEL_FORCE_MAX == 2000             \* mN
ODOM_FREQUENCY == 4
ODOM_NOISE_THRESHOLD_VEL == 5       \* mm/s
WHEEL_STOPPED_THRESHOLD_VEL == 150  \* mm/s
BUMP_DIST == 1000                   \* um
STALL_TICKS == 5                    \* "wheel_stopped_count[idx] > 5"
physics_ticks_per_update == 4
SIM_DT == 10                        \* ms, RoboSim.dt
BUMP_ANGLE_RANGES == << <<20, 70>>, <<-25, 25>>, <<-70, -25>> >>
\* filter coefficients, in 1e-4
SETPOINT_FILTER_B == <<730, 730>>
SETPOINT_FILTER_A == <<-8541>>
VOLTAGE_FILTER_B == <<1367, 1367>>
VOLTAGE_FILTER_A == <<-7265>>
\* Motor.V_nominal, 0.1 mV (the motor module is not part of the sources)
V_nominal == 120000
\* pi/2 in AU (361283.2 rounded to the trig table's grid)
QuarterTurn == 361280

RobotId == 1
RoomId == 2

\* LOG_NAMES, in the order of the log_var calls
LOG_NAMES ==
    << "pos_x.pose.true", "pos_y.pose.true", "angle.pose.true",
       "pos_x.pose.odom", "pos_y.pose.odom", "angle.pose.odom",
       "bump.left", "bump.center", "bump.right", "motors_enabled",
       "forward_vel.cmd", "angular_vel.cmd", "wheel_vel_l.cmd", "wheel_vel_r.cmd",
       "forward_vel.true", "angular_vel.true", "wheel_vel_l.true", "wheel_vel_r.true",
       "wheel_vel_l.meas", "wheel_vel_r.meas", "forward_vel.meas", "angular_vel.meas",
       "motor_vel.l", "motor_vel.r", "motor_current.l", "motor_current.r",
       "motor_voltage.l", "motor_voltage.r", "motor_torque.l", "motor_torque.r",
       "wheel_force.l", "wheel_force.r", "wheel_skid_force.l", "wheel_skid_force.r" >>

(***************************************************************************)
(* Arithmetic helpers.                                                     *)
(***************************************************************************)
Abs(x) == IF x < 0 THEN -x ELSE x

Max2(a, b) == IF a >= b THEN a ELSE b

\* a / b rounded to nearest (b > 0)
RoundDiv(a, b) == (a + b \div 2) \div b

\* (variant: no clipping)
clamp_abs_off(quantity, limit) == quantity

\* numpy.clip(quantity, -limit, limit): minimum(maximum(q, -limit), limit)
clamp_abs(quantity, limit) ==
    LET lo == IF quantity < -limit THEN -limit ELSE quantity
    IN  IF lo > limit THEN limit ELSE lo

\* cos on a grid of 64 steps per turn, in 1e-3
CosTab == <<1000, 995, 981, 957, 924, 882, 831, 773, 707,
            634, 556, 471, 383, 290, 195, 98, 0>>

GridIndex(angle) == RoundDiv(16 * angle, QuarterTurn) % 64

CosMilli(angle) ==
    LET i == GridIndex(angle)
    IN  IF i <= 16 THEN CosTab[i + 1]
        ELSE IF i <= 32 THEN -CosTab[(32 - i) + 1]
        ELSE IF i <= 48 THEN -CosTab[(i - 32) + 1]
        ELSE CosTab[(64 - i) + 1]

SinMilli(angle) == CosMilli(angle - QuarterTurn)

(***************************************************************************)
(* Transform2D (robosim_core.py): position <<x, y>> and angle.             *)
(***************************************************************************)
Transform2D(position, angle) == [position |-> position, angle |-> angle]

Identity2D == Transform2D(<<0, 0>>, 0)

\* R * v for the rotation matrix [[c, -s], [s, c]] of angle
Rotate(angle, v) ==
    LET c == CosMilli(angle)
        s == SinMilli(angle)
    IN  << RoundDiv(c * v[1] - s * v[2], 1000),
           RoundDiv(s * v[1] + c * v[2], 1000) >>

\* R^T * v
RotateInv(angle, v) ==
    LET c == CosMilli(angle)
        s == SinMilli(angle)
    IN  << RoundDiv(c * v[1] + s * v[2], 1000),
           RoundDiv(c * v[2] - s * v[1], 1000) >>

\* Transform2D.transform_fwd / __mul__ with another Transform2D
T2D_mul(T2, T1) ==
    LET p == Rotate(T2.angle, T1.position)
    IN  Transform2D(<<p[1] + T2.position[1], p[2] + T2.position[2]>>,
                    T2.angle + T1.angle)

\* Transform2D.transform_fwd with a point
T2D_transform_fwd(T, p) ==
    LET q == Rotate(T.angle, p)
    IN  <<q[1] + T.position[1], q[2] + T.position[2]>>

\* Transform2D.transform_inv with a point
T2D_transform_inv(T, p) ==
    RotateInv(T.angle, <<p[1] - T.position[1], p[2] - T.position[2]>>)

\* (variant: the position is negated but not rotated back)
T2D_inverse_unrotated(T) ==
    Transform2D(<<-T.position[1], -T.position[2]>>, -T.angle)

\* Transform2D.inverse
T2D_inverse(T) ==
    Transform2D(RotateInv(T.angle, <<-T.position[1], -T.position[2]>>),
                -T.angle)

(***************************************************************************)
(* iir_filter: the new histories and the returned output.                  *)
(***************************************************************************)
Dot(B, xs) ==
    LET RECURSIVE sum(_)
        sum(i) == IF i = 0 THEN 0 ELSE B[i] * xs[i] + sum(i - 1)
    IN  sum(Len(B))

\* (variant: the copy runs over its own result, element by element)
Shift_smeared(head, xs) ==
    [k \in 1..Len(xs) |-> IF k = 1 THEN head ELSE xs[1]]

\* x[1:] = x[:-1]; x[0] = head
Shift(head, xs) == <<head>> \o SubSeq(xs, 1, Len(xs) - 1)

iir_filter(meas, inputs, outputs, do_filter, B, A) ==
    LET ins    == Shift(meas, inputs)
        output == IF do_filter
                  THEN RoundDiv(Dot(B, ins) - Dot(A, outputs), 10000)
                  ELSE meas
    IN  [inputs |-> ins, outputs |-> Shift(output, outputs), output |-> output]

(***************************************************************************)
(* Kinematics helpers.                                                     *)
(***************************************************************************)
\* linear = (r+l)/2, angular = (r-l)/(2*ROBOT_WHEEL_OFFSET)
linear_angular_from_wheel_lr(wheel_lr_vel) ==
    << (wheel_lr_vel[2] + wheel_lr_vel[1]) \div 2,
       wheel_lr_vel[2] - wheel_lr_vel[1] >>

\* l = linear - angular*ROBOT_WHEEL_OFFSET, r = linear + angular*ROBOT_WHEEL_OFFSET
wheel_lr_from_linear_angular(linear_angular) ==
    << linear_angular[1] - linear_angular[2] \div 2,
       linear_angular[1] + linear_angular[2] \div 2 >>

(***************************************************************************)
(* The motor model (ursim/motor.py is not part of the sources): the wheel  *)
(* surface speed of a motor speed in rad/s and the motor torque of a wheel *)
(* force, both through the wheel radius.  simulate_dynamics is a black box *)
(* whose result is an input of the tick.                                   *)
(***************************************************************************)
wheel_tgt_speed_from_motor_speed(w) == w * ROBOT_WHEEL_RADIUS

motor_torque_from_wheel_tgt_force(F) == F * ROBOT_WHEEL_RADIUS

ZeroMotor == [speed |-> 0, current |-> 0]

(***************************************************************************)
(* Robot.__init__ and Robot.initialize: the Robot's fields.  The rigid     *)
(* body that initialize creates lives in the world (see the actions).      *)
(***************************************************************************)
Robot_initialize(r, position, angle) ==
    [r EXCEPT
        !.colliders = {},
        !.bump = <<0, 0, 0>>,
        !.orig_position = position,
        !.orig_angle = angle,
        !.odom_pose = Identity2D,
        !.initial_pose_inv = T2D_inverse(Transform2D(position, angle)),
        !.odom_tick = 0,
        !.forward_vel = 0,
        !.desired_linear_angular_vel = <<0, 0>>,
        !.desired_linear_angular_vel_raw = << <<0, 0>>, <<0, 0>> >>,
        !.desired_linear_angular_vel_filtered = << <<0>>, <<0>> >>,
        !.odom_wheel_vel = <<0, 0>>,
        !.wheel_stopped_count = <<0, 0>>,
        !.wheel_vel_integrator = <<0, 0>>,
        !.wheel_vel = <<0, 0>>,
        !.motor_state = <<ZeroMotor, ZeroMotor>>,
        !.motor_torques = <<0, 0>>,
        !.motor_voltages_raw = << <<0, 0>>, <<0, 0>> >>,
        !.motor_voltages_filtered = << <<0>>, <<0>> >>,
        !.wheel_forces = <<0, 0>>,
        !.wheel_skid_forces = <<0, 0>>]

\* The log-variable columns the model keeps (update_log writes all of them)
ZeroLogVars ==
    [pose_true |-> Identity2D, pose_odom |-> Identity2D, bump |-> <<0, 0, 0>>,
     motors_enabled |-> FALSE, wheel_force |-> <<0, 0>>,
     wheel_skid_force |-> <<0, 0>>, motor_torque |-> <<0, 0>>,
     motor_voltage |-> <<0, 0>>]

Robot_new(perfect_odometry, perfect_contact) ==
    Robot_initialize(
        [colliders |-> {}, bump |-> <<0, 0, 0>>,
         orig_position |-> <<0, 0>>, orig_angle |-> 0,
         odom_pose |-> Identity2D, initial_pose_inv |-> Identity2D,
         odom_tick |-> 0, forward_vel |-> 0,
         desired_linear_angular_vel |-> <<0, 0>>,
         desired_linear_angular_vel_raw |-> << <<0, 0>>, <<0, 0>> >>,
         desired_linear_angular_vel_filtered |-> << <<0>>, <<0>> >>,
         desired_wheel_vel |-> <<0, 0>>,
         odom_linear_angular_vel |-> <<0, 0>>,
         odom_wheel_vel |-> <<0, 0>>,
         wheel_stopped_count |-> <<0, 0>>,
         wheel_vel_integrator |-> <<0, 0>>,
         wheel_vel |-> <<0, 0>>,
         motor_state |-> <<ZeroMotor, ZeroMotor>>,
         motor_torques |-> <<0, 0>>,
         motor_voltages_raw |-> << <<0, 0>>, <<0, 0>> >>,
         motor_voltages_filtered |-> << <<0>>, <<0>> >>,
         wheel_forces |-> <<0, 0>>,
         wheel_skid_forces |-> <<0, 0>>,
         motors_enabled |-> TRUE,
         filter_setpoints |-> FALSE,
         perfect_odometry |-> perfect_odometry,
         perfect_contact |-> perfect_contact,
         log_vars |-> ZeroLogVars,
         log_vars_array |-> "robot.log_vars"],
        <<0, 0>>, 0)

(***************************************************************************)
(* Robot.sim_update, one wheel (idx = 1 left, 2 right).                    *)
(***************************************************************************)
\* measured speed: noise only above ODOM_NOISE_THRESHOLD_VEL
OdomWheelVel(wheel_tgt_speed, noise) ==
    IF wheel_tgt_speed > ODOM_NOISE_THRESHOLD_VEL
    THEN wheel_tgt_speed + noise
    ELSE wheel_tgt_speed

\* the stall counter
StoppedCount(count, desired, measured) ==
    IF desired = 0 /\ Abs(measured) < WHEEL_STOPPED_THRESHOLD_VEL
    THEN count + 1
    ELSE 0

\* (variant: accumulate and store without the clamp)
IntegratorUpdate_unclamped(integrator, wheel_vel_error, dt) ==
    integrator + wheel_vel_error * dt

\* vel_int: accumulate, then clamp, then store
IntegratorUpdate(integrator, wheel_vel_error, dt) ==
    clamp_abs(integrator + wheel_vel_error * dt, MOTOR_VEL_INT_MAX)

\* (variant: the stall cut-off one tick early)
CommandVoltage_from_fifth(motors_enabled, stopped_count, wheel_vel_error, vel_int) ==
    IF motors_enabled
    THEN clamp_abs(IF stopped_count >= STALL_TICKS
                   THEN 0
                   ELSE MOTOR_VEL_KP * wheel_vel_error + MOTOR_VEL_KI * vel_int,
                   V_nominal)
    ELSE 0

\* (variant: the motors_enabled flag is ignored)
CommandVoltage_always_on(motors_enabled, stopped_count, wheel_vel_error, vel_int) ==
    clamp_abs(IF stopped_count > STALL_TICKS
              THEN 0
              ELSE MOTOR_VEL_KP * wheel_vel_error + MOTOR_VEL_KI * vel_int,
              V_nominal)

\* V_cmd, the input of the voltage filter
CommandVoltage(motors_enabled, stopped_count, wheel_vel_error, vel_int) ==
    IF motors_enabled
    THEN clamp_abs(IF stopped_count > STALL_TICKS
                   THEN 0
                   ELSE MOTOR_VEL_KP * wheel_vel_error + MOTOR_VEL_KI * vel_int,
                   V_nominal)
    ELSE 0

\* F = vel_impulse / dt_sec with vel_impulse = 0.5 * vel_mismatch * mass
UnclampedForce(vel_mismatch, dt) == (vel_mismatch * ROBOT_BASE_MASS) \div (2 * dt)

ForceLimit(noise) == Max2(0, WHEEL_FORCE_MAX + noise)

\* the force handed to wheel_forces, motor_torques and body.ApplyForce
AppliedForce(F, Fclamp) == F

\* skid force as stored
SkidForce(F, Fclamp) == Fclamp - F

\* The quantities of one wheel's pass through the loop body.  win is the
\* wheel's external input: vnoise and fnoise (the two random draws), motor
\* (the state simulate_dynamics returns) and body_vel (the body's forward
\* velocity at the wheel contact point).
WheelPass(r, idx, desired_wheel_vel, dt, win) ==
    LET tgt      == wheel_tgt_speed_from_motor_speed(r.motor_state[idx].speed)
        vnoise   == IF r.perfect_odometry THEN 0 ELSE win.vnoise
        fnoise   == IF r.perfect_contact THEN 0 ELSE win.fnoise
        meas     == OdomWheelVel(tgt, vnoise)
        err      == desired_wheel_vel[idx] - meas
        count    == StoppedCount(r.wheel_stopped_count[idx],
                                 desired_wheel_vel[idx], meas)
        vel_int  == IntegratorUpdate(r.wheel_vel_integrator[idx], err, dt)
        V_cmd    == CommandVoltage(r.motors_enabled, count, err, vel_int)
        vf       == iir_filter(V_cmd, r.motor_voltages_raw[idx],
                               r.motor_voltages_filtered[idx], TRUE,
                               VOLTAGE_FILTER_B, VOLTAGE_FILTER_A)
        tgt2     == wheel_tgt_speed_from_motor_speed(win.motor.speed)
        F        == UnclampedForce(tgt2 - win.body_vel, dt)
        Fclamp   == clamp_abs(F, ForceLimit(fnoise))
        Fapp     == AppliedForce(F, Fclamp)
    IN  [wheel_vel |-> tgt, odom_wheel_vel |-> meas, count |-> count,
         vel_int_sum |-> r.wheel_vel_integrator[idx] + err * dt,
         vel_int |-> vel_int, V_cmd |-> V_cmd,
         raw |-> vf.inputs, filtered |-> vf.outputs,
         torque_load |-> r.motor_torques[idx],
         motor_state |-> win.motor,
         fnoise |-> fnoise,
         F |-> F, F_max |-> ForceLimit(fnoise), Fclamp |-> Fclamp,
         skid |-> SkidForce(F, Fclamp), force |-> Fapp,
         motor_torque |-> motor_torque_from_wheel_tgt_force(-Fapp)]

(***************************************************************************)
(* Robot.sim_update, odometry.                                             *)
(***************************************************************************)
\* perfect mode: inverse(spawn pose) * current body pose
PerfectOdomPose(r, body) ==
    T2D_mul(T2D_inverse(Transform2D(r.orig_position, r.orig_angle)),
            Transform2D(body.position, body.angle))

\* dead reckoning over ODOM_FREQUENCY ticks
AdvancedOdomPose(pose, linear_angular, dt) ==
    LET odt       == dt * ODOM_FREQUENCY
        odom_fwd  == RoundDiv(odt * linear_angular[1], 100)
        odom_spin == odt * linear_angular[2]
    IN  Transform2D(
            << pose.position[1] + RoundDiv(odom_fwd * CosMilli(pose.angle), 1000),
               pose.position[2] + RoundDiv(odom_fwd * SinMilli(pose.angle), 1000) >>,
            pose.angle + odom_spin)

\* (variant: due one tick after each multiple)
OdomDue_off_phase(odom_tick) == odom_tick % ODOM_FREQUENCY = 1

\* (variant: due on every tick)
OdomDue_every_tick(odom_tick) == TRUE

OdomDue(odom_tick) == odom_tick % ODOM_FREQUENCY = 0

OdomPose(r, body, odom_tick, linear_angular, dt) ==
    IF r.perfect_odometry THEN PerfectOdomPose(r, body)
    ELSE IF OdomDue(odom_tick)
         THEN AdvancedOdomPose(r.odom_pose, linear_angular, dt)
         ELSE r.odom_pose

(***************************************************************************)
(* Robot.sim_update, bump sensor.  The distance query of one shape pair    *)
(* returns [distance, theta]: theta is the polar angle of the nearest      *)
(* point in the robot's frame.                                             *)
(***************************************************************************)
\* (variant: the upper end excluded)
InRange_half_open(theta, i) ==
    theta >= BUMP_ANGLE_RANGES[i][1] /\ theta < BUMP_ANGLE_RANGES[i][2]

InRange(theta, i) ==
    theta >= BUMP_ANGLE_RANGES[i][1] /\ theta <= BUMP_ANGLE_RANGES[i][2]

PairHit(pair) == pair.distance < BUMP_DIST

\* collider_did_hit
ColliderDidHit(pairs) == \E k \in 1..Len(pairs) : PairHit(pairs[k])

\* (variant: the flags are not cleared first)
BumpFlags_carried(bump, visited, contacts) ==
    [i \in 1..3 |->
        IF \/ bump[i] = 1
           \/ \E c \in visited : \E k \in 1..Len(contacts[c]) :
                 PairHit(contacts[c][k]) /\ InRange(contacts[c][k].theta, i)
        THEN 1 ELSE 0]

\* the flags one evaluation leaves: self.bump[:] = 0, then OR-ed over the
\* near pairs of the colliders visited
BumpFlags(bump, visited, contacts) ==
    LET cleared == [i \in 1..3 |-> 0]
    IN  [i \in 1..3 |->
            IF \/ cleared[i] = 1
               \/ \E c \in visited : \E k \in 1..Len(contacts[c]) :
                     PairHit(contacts[c][k]) /\ InRange(contacts[c][k].theta, i)
            THEN 1 ELSE 0]

\* (variant: nothing is ever finished)
FinishedColliders_none(colliders, contacts) == {}

\* finished_colliders: the colliders without a near pair
FinishedColliders(colliders, contacts) ==
    {c \in colliders : ~ColliderDidHit(contacts[c])}

(***************************************************************************)
(* Robot.sim_update as a whole.  body is the robot's rigid body            *)
(* [position, angle]; alive is the set of objects whose body is not None;  *)
(* in holds the external inputs: fwd (the body's forward velocity), wheel  *)
(* (per wheel, see WheelPass), contacts (per collider, the shape pairs'    *)
(* distance results) and visited (the colliders iterated before a          *)
(* collider without a body raises AttributeError).                         *)
(***************************************************************************)
Robot_sim_update(r, body, alive, dt, in) ==
    LET setpoint(idx) ==
            iir_filter(r.desired_linear_angular_vel[idx],
                       r.desired_linear_angular_vel_raw[idx],
                       r.desired_linear_angular_vel_filtered[idx],
                       r.filter_setpoints,
                       SETPOINT_FILTER_B, SETPOINT_FILTER_A)
        filt == <<setpoint(1), setpoint(2)>>
        desired_wheel_vel == wheel_lr_from_linear_angular(
                                 <<filt[1].outputs[1], filt[2].outputs[1]>>)
        w == << WheelPass(r, 1, desired_wheel_vel, dt, in.wheel[1]),
                WheelPass(r, 2, desired_wheel_vel, dt, in.wheel[2]) >>
        odom_wheel_vel == <<w[1].odom_wheel_vel, w[2].odom_wheel_vel>>
        la == linear_angular_from_wheel_lr(odom_wheel_vel)
        odom_tick == r.odom_tick + 1
        raised == \E c \in r.colliders : c \notin alive
        visited == IF raised THEN in.visited ELSE r.colliders
        r1 == [r EXCEPT
                !.forward_vel = in.fwd,
                !.desired_linear_angular_vel_raw = <<filt[1].inputs, filt[2].inputs>>,
                !.desired_linear_angular_vel_filtered = <<filt[1].outputs, filt[2].outputs>>,
                !.desired_wheel_vel = desired_wheel_vel,
                !.wheel_vel = <<w[1].wheel_vel, w[2].wheel_vel>>,
                !.odom_wheel_vel = odom_wheel_vel,
                !.wheel_stopped_count = <<w[1].count, w[2].count>>,
                !.wheel_vel_integrator = <<w[1].vel_int, w[2].vel_int>>,
                !.motor_voltages_raw = <<w[1].raw, w[2].raw>>,
                !.motor_voltages_filtered = <<w[1].filtered, w[2].filtered>>,
                !.motor_state = <<w[1].motor_state, w[2].motor_state>>,
                !.wheel_skid_forces = <<w[1].skid, w[2].skid>>,
                !.wheel_forces = <<w[1].force, w[2].force>>,
                !.motor_torques = <<w[1].motor_torque, w[2].motor_torque>>,
                !.odom_linear_angular_vel = la,
                !.odom_tick = odom_tick,
                !.odom_pose = OdomPose(r, body, odom_tick, la, dt),
                !.bump = BumpFlags(r.bump, visited, in.contacts),
                !.colliders = IF raised THEN r.colliders
                              ELSE r.colliders \ FinishedColliders(r.colliders, in.contacts)]
    IN  [robot |-> r1,
         applied |-> <<w[1].force, w[2].force>>,
         wheel |-> w,
         raised |-> raised]

(***************************************************************************)
(* DataLog (datalog.py).  current_log is the sequence of rows written so   *)
(* far when logging (None otherwise); a row is the copy of every           *)
(* registered array.                                                       *)
(***************************************************************************)
\* DataLog(dt) with a dt: the time column counts as one variable.  variables
\* maps a name to <<group_idx, var_idx>>.
DataLog_new ==
    [logging |-> FALSE, current_log |-> <<>>, log_rows |-> 0, groups |-> <<>>,
     current_filename |-> "None",
     variables |-> [n \in {} |-> <<0, 0>>], total_variables |-> 1]

\* "assert not any([(name in self.variables) for name in names])"
DataLog_add_variables_assert(dl, names) ==
    \A i \in DOMAIN names : names[i] \notin DOMAIN dl.variables

\* add_variables past its assertions, while no log is current; array is a
\* flat numeric array of len(names) elements
DataLog_add_variables(dl, names, array) ==
    LET group_idx == Len(dl.groups)
        new == {names[i] : i \in DOMAIN names}
        \* the loop assigns in order: the last position of a name stays
        var_idx(n) == CHOOSE i \in DOMAIN names :
                         /\ names[i] = n
                         /\ \A j \in DOMAIN names : names[j] = n => j <= i
        idx0 == dl.total_variables
        idx1 == idx0 + Len(names)
    IN  [dl EXCEPT
            !.variables = [n \in DOMAIN dl.variables \cup new |->
                              IF n \in new THEN <<group_idx, var_idx(n) - 1>>
                              ELSE dl.variables[n]],
            !.groups = Append(@, [names |-> names, array |-> array,
                                  idx0 |-> idx0, idx1 |-> idx1]),
            !.total_variables = @ + Len(names)]

DataLog_is_logging(dl) == dl.logging

\* "assert self.current_log is None and self.log_rows == 0"
DataLog_begin_log_assert(dl) == ~dl.logging /\ dl.log_rows = 0

\* begin_log past its assertion; filename is the name made from the clock,
\* which is also the value returned
DataLog_begin_log(dl, filename) ==
    [dl EXCEPT !.logging = TRUE, !.current_log = <<>>, !.current_filename = filename]

\* "assert self.current_log is not None" of append_log_row and write_log
DataLog_logging_assert(dl) == dl.logging

DataLog_append_log_row(dl, values) ==
    [dl EXCEPT !.current_log = Append(@, values), !.log_rows = @ + 1]

\* (variant: the row count survives the write)
DataLog_write_log_keeps_rows(dl) ==
    [dl EXCEPT !.logging = FALSE, !.current_log = <<>>,
               !.current_filename = "None"]

\* write_log past its assertion; it returns the old current_filename
DataLog_write_log(dl) ==
    [dl EXCEPT !.logging = FALSE, !.current_log = <<>>, !.log_rows = 0,
               !.current_filename = "None"]

\* (variant: finish leaves the session open)
DataLog_finish_leaves_open(dl) == dl

DataLog_finish(dl) == IF dl.logging THEN DataLog_write_log(dl) ELSE dl

\* the value finish returns
DataLog_finish_result(dl) == IF dl.logging THEN dl.current_filename ELSE "None"

(***************************************************************************)
(* The simulator state S: RoboSim's fields, the SimObjects it ever made    *)
(* (simobjs, indexed by object identity) and the part of the Box2D world   *)
(* the model keeps: which objects have a body (body = its serial number in *)
(* the world, 0 for None), the robot body's pose and the forces applied to *)
(* it since the last ClearForces.                                          *)
(***************************************************************************)
HasWorld(kind) == kind # "tape"

\* number of fixtures of a kind's body
NumFixtures(kind) ==
    IF kind = "wall" THEN 3 ELSE IF kind = "room" THEN 4 ELSE 1

Alive(S) == {id \in 1..Len(S.simobjs) : S.simobjs[id].body # 0}

\* (variant: the body is kept)
SimObject_destroy_keeps_body(S, id) == S

\* SimObject.destroy
SimObject_destroy(S, id) == [S EXCEPT !.simobjs[id].body = 0]

\* world.Create*Body(userData = self)
CreateBody(S, id) ==
    [S EXCEPT !.simobjs[id].body = S.bodies_created + 1,
              !.bodies_created = @ + 1]

\* Pylon/Ball/Wall/Box/Room.initialize: destroy, then a new body
Object_initialize(S, id) == CreateBody(SimObject_destroy(S, id), id)

\* Robot.initialize(position, angle)
RoboSim_initialize_robot(S, position, angle) ==
    LET S1 == CreateBody(SimObject_destroy(S, RobotId), RobotId)
    IN  [S1 EXCEPT !.robot = Robot_initialize(S.robot, position, angle),
                   !.body = [position |-> position, angle |-> angle]]

\* (variant: the Robot's reset does nothing)
Object_reset_props_only(S, id) ==
    IF id = RobotId
    THEN S
    ELSE IF HasWorld(S.simobjs[id].kind) THEN Object_initialize(S, id)
    ELSE S

\* obj.reset() by class
Object_reset(S, id) ==
    IF id = RobotId
    THEN RoboSim_initialize_robot(S, S.robot.orig_position, S.robot.orig_angle)
    ELSE IF HasWorld(S.simobjs[id].kind) THEN Object_initialize(S, id)
    ELSE S

\* Robot.update_log
Robot_update_log(S) ==
    LET r == S.robot
    IN  [S EXCEPT !.robot.log_vars =
            [pose_true |-> T2D_mul(r.initial_pose_inv,
                                   Transform2D(S.body.position, S.body.angle)),
             pose_odom |-> r.odom_pose,
             bump |-> r.bump,
             motors_enabled |-> r.motors_enabled,
             wheel_force |-> r.wheel_forces,
             wheel_skid_force |-> r.wheel_skid_forces,
             motor_torque |-> <<-r.motor_torques[1], -r.motor_torques[2]>>,
             motor_voltage |-> <<r.motor_voltages_filtered[1][1],
                                 r.motor_voltages_filtered[2][1]>>]]

\* what append_log_row copies: the contents of every registered array
ArrayContents(S, array) ==
    IF array = S.robot.log_vars_array THEN S.robot.log_vars ELSE ZeroLogVars

LogRow(S) ==
    [g \in 1..Len(S.datalog.groups) |-> ArrayContents(S, S.datalog.groups[g].array)]

\* RoboSim.__init__
RoboSim_new(perfect_odometry, perfect_contact) ==
    [objects |-> <<RobotId, RoomId>>,
     simobjs |-> << [kind |-> "robot", body |-> 1, point_lists |-> 0],
                    [kind |-> "room", body |-> 2, point_lists |-> 0] >>,
     bodies_created |-> 2,
     body |-> [position |-> <<0, 0>>, angle |-> 0],
     applied |-> <<0, 0>>,
     robot |-> Robot_new(perfect_odometry, perfect_contact),
     dims |-> <<-1, -1>>,
     modification_counter |-> 0,
     tape_strips |-> [c \in {} |-> 0],
     datalog |-> DataLog_add_variables(DataLog_new, LOG_NAMES, "robot.log_vars"),
     sim_time |-> 0,
     sim_ticks |-> 0,
     svg_file |-> "None",
     observers |-> <<>>]

\* (variant: the cached description is kept)
RoboSim_set_dims_keeps_svg(S, d) ==
    LET S1 == Object_initialize(S, RoomId)
    IN  [S1 EXCEPT !.dims = d, !.modification_counter = @ + 1]

\* RoboSim.set_dims
RoboSim_set_dims(S, d) ==
    LET S1 == Object_initialize(S, RoomId)
    IN  [S1 EXCEPT !.dims = d, !.svg_file = "None", !.modification_counter = @ + 1]

\* (variant: the cached description is kept)
RoboSim_add_object_keeps_svg(S, kind) ==
    LET id == Len(S.simobjs) + 1
        S1 == [S EXCEPT !.simobjs = Append(@, [kind |-> kind, body |-> 0,
                                               point_lists |-> IF kind = "tape" THEN 1 ELSE 0])]
        S2 == IF HasWorld(kind) THEN CreateBody(S1, id) ELSE S1
    IN  [S2 EXCEPT !.objects = Append(@, id),
                   !.modification_counter = @ + 1]

\* RoboSim.add_object(obj) for a newly constructed obj of the kind
RoboSim_add_object(S, kind) ==
    LET id == Len(S.simobjs) + 1
        S1 == [S EXCEPT !.simobjs = Append(@, [kind |-> kind, body |-> 0,
                                               point_lists |-> IF kind = "tape" THEN 1 ELSE 0])]
        S2 == IF HasWorld(kind) THEN CreateBody(S1, id) ELSE S1
    IN  [S2 EXCEPT !.objects = Append(@, id), !.svg_file = "None",
                   !.modification_counter = @ + 1]

\* (variant: a further strip of a colour is not counted as a modification)
RoboSim_add_tape_strip_uncounted(S, cname) ==
    IF cname \notin DOMAIN S.tape_strips
    THEN LET S1 == RoboSim_add_object(S, "tape")
         IN  [S1 EXCEPT !.tape_strips = S.tape_strips @@ (cname :> Len(S1.simobjs))]
    ELSE [S EXCEPT !.simobjs[S.tape_strips[cname]].point_lists = @ + 1]

\* RoboSim.add_tape_strip(points, cname)
RoboSim_add_tape_strip(S, cname) ==
    IF cname \notin DOMAIN S.tape_strips
    THEN LET S1 == RoboSim_add_object(S, "tape")
         IN  [S1 EXCEPT !.tape_strips = S.tape_strips @@ (cname :> Len(S1.simobjs))]
    ELSE [S EXCEPT !.simobjs[S.tape_strips[cname]].point_lists = @ + 1,
                   !.modification_counter = @ + 1]

\* one add_* call: "box", "pylon", "ball", "wall", "tape_blue", "tape_silver"
RoboSim_add(S, what) ==
    IF what = "tape_blue" THEN RoboSim_add_tape_strip(S, "blue")
    ELSE IF what = "tape_silver" THEN RoboSim_add_tape_strip(S, "silver")
    ELSE RoboSim_add_object(S, what)

\* (variant: a clear that rebuilds the list from nothing)
RoboSim_clear_to_empty(S) ==
    LET RECURSIVE destroyFrom(_, _)
        destroyFrom(T, k) ==
            IF k > Len(S.objects) THEN T
            ELSE destroyFrom(SimObject_destroy(T, S.objects[k]), k + 1)
        S1 == destroyFrom(S, 3)
    IN  [S1 EXCEPT !.datalog = DataLog_finish(S.datalog),
                   !.sim_time = 0,
                   !.sim_ticks = 0,
                   !.modification_counter = @ + 1,
                   !.tape_strips = [c \in {} |-> 0],
                   !.objects = <<>>]

\* RoboSim.clear
RoboSim_clear(S) ==
    LET RECURSIVE destroyFrom(_, _)
        destroyFrom(T, k) ==
            IF k > Len(S.objects) THEN T
            ELSE destroyFrom(SimObject_destroy(T, S.objects[k]), k + 1)
        S1 == destroyFrom(S, 3)
    IN  [S1 EXCEPT !.datalog = DataLog_finish(S.datalog),
                   !.sim_time = 0,
                   !.sim_ticks = 0,
                   !.modification_counter = @ + 1,
                   !.tape_strips = [c \in {} |-> 0],
                   !.objects = <<RobotId, RoomId>>]

(***************************************************************************)
(* Environment descriptions.  Parsing is external: a description is its    *)
(* dimensions, the add_* calls its items turn into, and the robot's spawn  *)
(* pose (the triangle, or the room's centre at angle 0 without one).       *)
(***************************************************************************)
SvgFiles == {"env.svg"}

Svg(f) ==
    [dims |-> <<30000, 20000>>,
     items |-> <<"pylon", "wall", "tape_blue", "tape_blue">>,
     robot_init_position |-> <<10000, 20000>>,
     robot_init_angle |-> QuarterTurn]

\* RoboSim.load_svg
RoboSim_load_svg(S, f) ==
    LET RECURSIVE addFrom(_, _)
        addFrom(T, k) ==
            IF k > Len(Svg(f).items) THEN T
            ELSE addFrom(RoboSim_add(T, Svg(f).items[k]), k + 1)
        S1 == addFrom(RoboSim_set_dims(S, Svg(f).dims), 1)
        S2 == RoboSim_initialize_robot(S1, Svg(f).robot_init_position,
                                       Svg(f).robot_init_angle)
    IN  [S2 EXCEPT !.svg_file = f]

\* (variant: always in place)
RoboSim_reset_in_place(S, reload_svg) ==
    LET S0 == [S EXCEPT !.datalog = DataLog_finish(S.datalog)]
        RECURSIVE resetFrom(_, _)
        resetFrom(T, k) ==
            IF k > Len(S0.objects) THEN T
            ELSE resetFrom(Object_reset(T, S0.objects[k]), k + 1)
        S1 == resetFrom([S0 EXCEPT !.sim_time = 0, !.sim_ticks = 0], 1)
    IN  [S1 EXCEPT !.modification_counter = @ + 1]

\* RoboSim.reset
RoboSim_reset(S, reload_svg) ==
    LET S0 == [S EXCEPT !.datalog = DataLog_finish(S.datalog)]
        RECURSIVE resetFrom(_, _)
        resetFrom(T, k) ==
            IF k > Len(S0.objects) THEN T
            ELSE resetFrom(Object_reset(T, S0.objects[k]), k + 1)
        S1 == IF reload_svg /\ S0.svg_file # "None"
              THEN RoboSim_load_svg(RoboSim_clear(S0), S0.svg_file)
              ELSE resetFrom([S0 EXCEPT !.sim_time = 0, !.sim_ticks = 0], 1)
    IN  [S1 EXCEPT !.modification_counter = @ + 1]

\* (variant: the first body's owner is inserted whoever the second is)
RoboSim_PreSolve_any(S, a, b) == [S EXCEPT !.robot.colliders = @ \cup {a}]

\* RoboSim.PreSolve(contact) for a contact between the bodies of a and b
RoboSim_PreSolve(S, a, b) ==
    LET other == IF S.simobjs[a].body = S.simobjs[RobotId].body THEN b
                 ELSE IF S.simobjs[b].body = S.simobjs[RobotId].body THEN a
                 ELSE 0
    IN  IF other # 0
        THEN [S EXCEPT !.robot.colliders = @ \cup {other}]
        ELSE S

(***************************************************************************)
(* Observers.  An observer is an external object; the model keeps the list *)
(* and, for every hook the simulator calls, a note of who was called with  *)
(* what: the simulator state handed over (seen) and the number of          *)
(* Robot.sim_update calls made so far (at).                                *)
(***************************************************************************)
\* self.observers.append(observer)
RoboSim_add_observer(S, observer) == [S EXCEPT !.observers = Append(@, observer)]

Note(observer, hook, S, at) ==
    [observer |-> observer, hook |-> hook, seen |-> S, at |-> at]

\* (variant: nobody is called)
Notify_nobody(S, hook, at) == <<>>

\* (variant: the last registered is called first)
Notify_reversed(S, hook, at) ==
    [k \in 1..Len(S.observers) |->
        Note(S.observers[Len(S.observers) + 1 - k], hook, S, at)]

\* for observer in self.observers: observer.<hook>(self)
Notify(S, hook, at) ==
    [k \in 1..Len(S.observers) |-> Note(S.observers[k], hook, S, at)]

(***************************************************************************)
(* State.                                                                  *)
(*   sim      the simulator state S above                                  *)
(*   pc       where the single thread is: "idle" between calls, inside     *)
(*            update() "sim_update" (before the objects' sim_update of a   *)
(*            sub-step), "step" (inside world.Step) or "finish" (after the *)
(*            last sub-step), and "raised" once an exception has escaped   *)
(*   substep  the loop index i of update()                                 *)
(*   calls, updates, ticks   how many calls of the interface, update()     *)
(*            calls and Robot.sim_update calls the run has made (for the   *)
(*            bounds)                                                      *)
(*   h_op     history: the operation the last step belongs to              *)
(*   h_tick   history: the number of Robot.sim_update calls since the last *)
(*            Robot.initialize                                             *)
(*   h_stall  history: per wheel, for each of those calls, whether the     *)
(*            wheel was commanded to stop and measured near zero           *)
(*   h_last   history: the last Robot.sim_update call: its dt, the         *)
(*            colliders it visited, the motors_enabled flag and the bump   *)
(*            flags it started from, its                                   *)
(*            contact inputs and its per-wheel locals (see WheelPass);     *)
(*            meaningful when h_tick > 0                                   *)
(*   h_held   history: for every object that was in the colliders set     *)
(*            when the last bump evaluation began or has been put there    *)
(*            since, the number of evaluations it has stayed through since *)
(*            its last contact event, counted up to MaxHeld                *)
(*   h_notes  history: the hooks of observers called by the operation      *)
(*            h_op names, in the order of the calls                        *)
(*   h_updates history: the number of update() calls completed since the   *)
(*            last reset() or clear()                                      *)
(*   h_svg    history: the environment description loaded last             *)
(*   h_ret    history: the value the last DataLog call of the log harness  *)
(*            returned, "AssertionError" if it raised that                 *)
(*   h_began  history: begin_log() has been called, and neither            *)
(*            write_log() nor finish() since                               *)
(*   calc     the operands and results of a harness that drives a pure     *)
(*            function (Transform2D, iir_filter); <<>> elsewhere           *)
(***************************************************************************)
VARIABLES sim, pc, substep, calls, updates, ticks, h_op, h_tick, h_stall, h_last,
          h_held, h_notes, h_updates, h_svg, h_ret, h_began, calc

vars == <<sim, pc, substep, calls, updates, ticks, h_op, h_tick, h_stall, h_last,
          h_held, h_notes, h_updates, h_svg, h_ret, h_began, calc>>

simvars == <<sim, pc, substep, calls, updates, ticks, h_op, h_tick, h_stall, h_last,
             h_held, h_notes, h_updates, h_svg, h_ret, h_began>>

budget == <<calls, updates, ticks>>

history == <<h_tick, h_stall, h_last, h_held>>

NoneHeld == [c \in {} |-> 0]

ghost == <<h_updates, h_svg, h_ret, h_began>>

NoTick == [dt |-> 0, visited |-> {}, raised |-> FALSE]

InitSim(PerfectOdometry, PerfectContact) ==
    /\ \E po \in PerfectOdometry, pcon \in PerfectContact :
          sim = RoboSim_new(po, pcon)
    /\ pc = "idle"
    /\ substep = 0
    /\ calls = 0
    /\ updates = 0
    /\ ticks = 0
    /\ h_op = "__init__"
    /\ h_tick = 0
    /\ h_stall = << <<>>, <<>> >>
    /\ h_last = NoTick
    /\ h_held = NoneHeld
    /\ h_notes = <<>>
    /\ h_updates = 0
    /\ h_svg = "None"
    /\ h_ret = "None"
    /\ h_began = FALSE

NoCalc == <<>>

InitWith(PerfectOdometry, PerfectContact) ==
    /\ InitSim(PerfectOdometry, PerfectContact)
    /\ calc = NoCalc

\* Robot.initialize has run: the histories start over
HistoryReset ==
    /\ h_tick' = 0
    /\ h_stall' = << <<>>, <<>> >>
    /\ h_last' = NoTick
    /\ h_held' = NoneHeld

\* Robot.sim_update(dt) has run on robot state r and body pose body with
\* inputs in and result res
HistoryTick(r, body, dt, in, res) ==
    LET w == res.wheel
        stalled(idx) == /\ res.robot.desired_wheel_vel[idx] = 0
                        /\ Abs(w[idx].odom_wheel_vel) < WHEEL_STOPPED_THRESHOLD_VEL
    IN  /\ h_tick' = h_tick + 1
        /\ h_stall' = <<Append(h_stall[1], stalled(1)), Append(h_stall[2], stalled(2))>>
        /\ h_last' = [dt |-> dt, visited |-> IF res.raised THEN in.visited ELSE r.colliders,
                      raised |-> res.raised, motors_enabled |-> r.motors_enabled,
                      bump_before |-> r.bump,
                      contacts |-> in.contacts, wheel |-> <<w[1], w[2]>>]
        /\ h_held' = IF res.raised THEN h_held
                     ELSE [c \in DOMAIN h_held \cap r.colliders |->
                              IF c \in res.robot.colliders /\ h_held[c] < MaxHeld
                              THEN h_held[c] + 1 ELSE h_held[c]]

(***************************************************************************)
(* External inputs of one Robot.sim_update.                                *)
(***************************************************************************)
FarPair == [distance |-> 5000, theta |-> 0]

\* the distance results of a body with n fixtures: the pair of the last
\* fixture is one of Pairs and the others are far
PairResults(n, Pairs) ==
    {[j \in 1..n |-> IF j = a THEN p ELSE FarPair] : a \in {n}, p \in Pairs}

\* one result per collider that has a body
RECURSIVE ContactsOf(_, _, _)
ContactsOf(S, D, Pairs) ==
    IF D = {} THEN {<<>>}
    ELSE LET c == CHOOSE x \in D : TRUE
         IN  {f @@ (c :> r) : f \in ContactsOf(S, D \ {c}, Pairs),
                              r \in PairResults(NumFixtures(S.simobjs[c].kind), Pairs)}

ContactInputs(S, Pairs) == ContactsOf(S, S.robot.colliders \cap Alive(S), Pairs)

TickInputs(S, WheelIns, Pairs) ==
    LET D == S.robot.colliders \cap Alive(S)
    IN  {[fwd |-> 0, wheel |-> wi, contacts |-> f, visited |-> v] :
            wi \in WheelIns, f \in ContactInputs(S, Pairs),
            v \in IF D = S.robot.colliders THEN {{}} ELSE SUBSET D}

(***************************************************************************)
(* Actions: the calls of RoboSim's interface.                              *)
(***************************************************************************)
\* a call is made between calls, and at most Max of them in a run
CanCall(Max) == pc = "idle" /\ calls < Max

\* the call op was made and called the hooks of notes
Called(op, notes) ==
    /\ calls' = calls + 1
    /\ h_op' = op
    /\ h_notes' = notes
    /\ UNCHANGED <<pc, substep, updates, ticks, calc>>

\* the name of the call for a thing to add
AddCall(what) ==
    CASE what = "box" -> "add_box"
      [] what = "pylon" -> "add_pylon"
      [] what = "ball" -> "add_ball"
      [] what = "wall" -> "add_wall"
      [] what = "tape_blue" -> "add_tape_strip(blue)"
      [] what = "tape_silver" -> "add_tape_strip(silver)"

\* add_box / add_pylon / add_ball / add_wall / add_tape_strip
Add(What, Max) ==
    /\ CanCall(Max)
    /\ \E what \in What :
          /\ sim' = RoboSim_add(sim, what)
          /\ Called(AddCall(what), <<>>)
    /\ UNCHANGED <<history, ghost>>

DimsSet == {<<40000, 40000>>}

SetDims(Max) ==
    /\ CanCall(Max)
    /\ \E d \in DimsSet : sim' = RoboSim_set_dims(sim, d)
    /\ Called("set_dims", <<>>)
    /\ UNCHANGED <<history, ghost>>

Clear(Max) ==
    /\ CanCall(Max)
    /\ sim' = RoboSim_clear(sim)
    /\ Called("clear", <<>>)
    /\ h_updates' = 0
    /\ h_began' = FALSE
    /\ UNCHANGED <<history, h_svg, h_ret>>

Reset(Max) ==
    /\ CanCall(Max)
    /\ \E reload_svg \in BOOLEAN :
          LET S1 == RoboSim_reset(sim, reload_svg)
          IN  /\ sim' = S1
              /\ Called(IF reload_svg THEN "reset(True)" ELSE "reset(False)",
                        Notify(S1, "initialize", ticks))
    /\ HistoryReset
    /\ h_updates' = 0
    /\ h_began' = FALSE
    /\ UNCHANGED <<h_svg, h_ret>>

LoadSvg(Max) ==
    /\ CanCall(Max)
    /\ \E f \in SvgFiles :
          /\ sim' = RoboSim_load_svg(sim, f)
          /\ h_svg' = f
    /\ Called("load_svg", <<>>)
    /\ HistoryReset
    /\ UNCHANGED <<h_updates, h_ret, h_began>>

\* add_observer(observer) with a new observer: append, register, initialize
AddObserver(Max) ==
    /\ CanCall(Max)
    /\ LET observer == Len(sim.observers) + 1
           S1 == RoboSim_add_observer(sim, observer)
       IN  /\ sim' = S1
           /\ Called("add_observer", << Note(observer, "register", S1, ticks),
                                        Note(observer, "initialize", S1, ticks) >>)
    /\ UNCHANGED <<history, ghost>>

SpawnPoses == {[position |-> <<10000, 20000>>, angle |-> 0]}

(***************************************************************************)
(* RoboSim.update(), step by step.                                         *)
(***************************************************************************)
\* begin a log unless one is active (its file named after the clock, one
\* of Names), call the observers' pre_update, then enter the loop
UpdateBegin(Names) ==
    /\ pc = "idle"
    /\ updates < MaxUpdates
    /\ \E filename \in Names :
          LET begins == ~DataLog_is_logging(sim.datalog)
              failed == begins /\ ~DataLog_begin_log_assert(sim.datalog)
              S1     == IF begins /\ ~failed
                        THEN [sim EXCEPT !.datalog = DataLog_begin_log(@, filename)]
                        ELSE sim
          IN  /\ sim' = S1
              /\ pc' = IF failed THEN "raised" ELSE "sim_update"
              /\ h_notes' = IF failed THEN <<>> ELSE Notify(S1, "pre_update", ticks)
              /\ h_began' = (h_began \/ begins)
    /\ substep' = 0
    /\ updates' = updates + 1
    /\ h_op' = "update"
    /\ UNCHANGED <<calls, ticks, history, h_updates, h_svg, h_ret, calc>>

\* for obj in self.objects: obj.sim_update(...): the Robot's, then the
\* others' drag forces on bodies the model does not follow
UpdateSimObjects(WheelIns, Pairs) ==
    /\ pc = "sim_update"
    /\ \E in \in TickInputs(sim, WheelIns, Pairs) :
          LET res == Robot_sim_update(sim.robot, sim.body, Alive(sim), SIM_DT, in)
          IN  /\ sim' = [sim EXCEPT !.robot = res.robot,
                                    !.applied = IF res.raised THEN @ ELSE res.applied]
              /\ pc' = IF res.raised THEN "raised" ELSE "step"
              /\ HistoryTick(sim.robot, sim.body, SIM_DT, in, res)
    /\ ticks' = ticks + 1
    /\ UNCHANGED <<substep, calls, updates, h_op, h_notes, ghost, calc>>

\* the contact listener, called from inside world.Step (pc = at) for a
\* touching pair of bodies, one of them the object at an index of Touch
PreSolve(at, Touch) ==
    /\ pc = at
    /\ \E k \in Touch \cap DOMAIN sim.objects, b \in {RobotId, RoomId} \cap Alive(sim) :
          /\ sim.objects[k] \in Alive(sim)
          /\ sim.objects[k] # b
          /\ sim' = RoboSim_PreSolve(sim, sim.objects[k], b)
          /\ LET event == IF b = RobotId THEN {sim.objects[k]} ELSE {}
             IN  h_held' = [c \in DOMAIN h_held \cup event |->
                               IF c \in event THEN 0 ELSE h_held[c]]
    /\ UNCHANGED <<pc, substep, budget, h_op, h_tick, h_stall, h_last, h_notes,
                   ghost, calc>>

\* world.Step returns, having moved the robot body by one of Moves;
\* ClearForces; sim_time += dt; sim_ticks += 1
MovedBody(body, m) ==
    [position |-> <<body.position[1] + m.position[1], body.position[2] + m.position[2]>>,
     angle |-> body.angle + m.angle]

UpdateStep(Moves) ==
    /\ pc = "step"
    /\ \E m \in Moves :
          sim' = [sim EXCEPT !.body = MovedBody(@, m),
                             !.applied = <<0, 0>>,
                             !.sim_time = @ + SIM_DT,
                             !.sim_ticks = @ + 1]
    /\ substep' = substep + 1
    /\ pc' = IF substep + 1 < physics_ticks_per_update THEN "sim_update" ELSE "finish"
    /\ UNCHANGED <<budget, h_op, history, h_notes, ghost, calc>>

\* robot.update_log(); the observers' post_update; datalog.append_log_row()
UpdateFinish ==
    /\ pc = "finish"
    /\ LET S1     == Robot_update_log(sim)
           failed == ~DataLog_logging_assert(S1.datalog)
       IN  /\ sim' = IF failed THEN S1
                     ELSE [S1 EXCEPT !.datalog = DataLog_append_log_row(@, LogRow(S1))]
           /\ pc' = IF failed THEN "raised" ELSE "idle"
           /\ h_notes' = h_notes \o Notify(S1, "post_update", ticks)
           /\ h_updates' = IF failed THEN h_updates ELSE h_updates + 1
    /\ UNCHANGED <<substep, budget, h_op, history, h_svg, h_ret, h_began, calc>>

(***************************************************************************)
(* The application's commands between calls, and a harness that drives the *)
(* Robot directly.                                                         *)
(***************************************************************************)
CanCommand(Max) == CanCall(Max)

\* robot.desired_linear_angular_vel[:] = la
SetDesiredVel(Commands, Max) ==
    /\ CanCommand(Max)
    /\ \E la \in Commands :
          /\ la # sim.robot.desired_linear_angular_vel
          /\ sim' = [sim EXCEPT !.robot.desired_linear_angular_vel = la]
    /\ Called("desired_linear_angular_vel", <<>>)
    /\ UNCHANGED <<history, ghost>>

\* robot.motors_enabled = not robot.motors_enabled
SetMotorsEnabled ==
    /\ CanCommand(MaxCommands)
    /\ sim' = [sim EXCEPT !.robot.motors_enabled = ~@]
    /\ Called("motors_enabled", <<>>)
    /\ UNCHANGED <<history, ghost>>

\* robot.initialize(position, angle)
RobotInitialize(Poses) ==
    /\ CanCommand(MaxCommands)
    /\ \E p \in Poses : sim' = RoboSim_initialize_robot(sim, p.position, p.angle)
    /\ Called("initialize", <<>>)
    /\ HistoryReset
    /\ UNCHANGED ghost

\* robot.sim_update(time, dt) with any tick of Ticks = pairs <<dt, wheel inputs>>
RobotSimUpdate(Ticks, Pairs, MaxTicks) ==
    /\ pc = "idle"
    /\ ticks < MaxTicks
    /\ \E t \in Ticks : \E in \in TickInputs(sim, {t[2]}, Pairs) :
          LET res == Robot_sim_update(sim.robot, sim.body, Alive(sim), t[1], in)
          IN  /\ sim' = [sim EXCEPT !.robot = res.robot,
                                    !.applied = IF res.raised THEN @ ELSE res.applied]
              /\ pc' = IF res.raised THEN "raised" ELSE pc
              /\ HistoryTick(sim.robot, sim.body, t[1], in, res)
    /\ ticks' = ticks + 1
    /\ h_op' = "sim_update"
    /\ h_notes' = <<>>
    /\ UNCHANGED <<substep, calls, updates, ghost, calc>>

(***************************************************************************)
(* The DataLog driven directly.  A call whose assertion fails raises       *)
(* AssertionError before it changes anything; the caller goes on.          *)
(***************************************************************************)
LogCalled(op, dl, ret, began) ==
    /\ sim' = [sim EXCEPT !.datalog = dl]
    /\ h_ret' = ret
    /\ h_began' = began
    /\ Called(op, <<>>)
    /\ UNCHANGED <<history, h_updates, h_svg>>

\* datalog.begin_log() at a time that makes the file name one of Names
LogBegin(Names) ==
    /\ CanCall(MaxLogCalls)
    /\ \E filename \in Names :
          IF DataLog_begin_log_assert(sim.datalog)
          THEN LogCalled("begin_log", DataLog_begin_log(sim.datalog, filename),
                         filename, TRUE)
          ELSE LogCalled("begin_log", sim.datalog, "AssertionError", TRUE)

\* datalog.append_log_row()
LogAppend ==
    /\ CanCall(MaxLogCalls)
    /\ IF DataLog_logging_assert(sim.datalog)
       THEN LogCalled("append_log_row",
                      DataLog_append_log_row(sim.datalog, LogRow(sim)), "None", h_began)
       ELSE LogCalled("append_log_row", sim.datalog, "AssertionError", h_began)

\* datalog.write_log()
LogWrite ==
    /\ CanCall(MaxLogCalls)
    /\ IF DataLog_logging_assert(sim.datalog)
       THEN LogCalled("write_log", DataLog_write_log(sim.datalog),
                      sim.datalog.current_filename, FALSE)
       ELSE LogCalled("write_log", sim.datalog, "AssertionError", FALSE)

\* datalog.finish()
LogFinish ==
    /\ CanCall(MaxLogCalls)
    /\ LogCalled("finish", DataLog_finish(sim.datalog),
                 DataLog_finish_result(sim.datalog), FALSE)

\* datalog.add_variables(names, array) with one of the name lists of Lists
\* and an array of the application, while no log is current
LogAddVariables(Lists) ==
    /\ CanCall(MaxVarCalls)
    /\ ~DataLog_is_logging(sim.datalog)
    /\ \E names \in Lists :
          IF DataLog_add_variables_assert(sim.datalog, names)
          THEN LogCalled("add_variables",
                         DataLog_add_variables(sim.datalog, names, "app.log_vars"),
                         "None", h_began)
          ELSE LogCalled("add_variables", sim.datalog, "AssertionError", h_began)

\* the environment is loaded once
LoadOnce ==
    /\ sim.svg_file = "None"
    /\ LoadSvg(MaxCalls)

(***************************************************************************)
(* Harnesses of the pure functions: calc holds the operands, and an action *)
(* stores the name of an expression and its value.                         *)
(***************************************************************************)
T2DCompute(op, value) ==
    /\ calc.op = "None"
    /\ calc' = [calc EXCEPT !.op = op, !.result = value]
    /\ UNCHANGED simvars

\* T0 * T0.inverse()
T2DSelfInverse ==
    T2DCompute("T * T.inverse()", T2D_mul(calc.T, T2D_inverse(calc.T)))

\* T0.transform_inv(T0.transform_fwd(p))
T2DInvFwd ==
    T2DCompute("T.transform_inv(T.transform_fwd(p))",
               T2D_transform_inv(calc.T, T2D_transform_fwd(calc.T, calc.p)))

\* T0.transform_fwd(T0.transform_inv(p))
T2DFwdInv ==
    T2DCompute("T.transform_fwd(T.transform_inv(p))",
               T2D_transform_fwd(calc.T, T2D_transform_inv(calc.T, calc.p)))

\* iir_filter(meas, inputs, outputs, do_filter, B, A) on the harness's two
\* history arrays, with any sample of Samples in either mode; calc also
\* keeps every sample, mode and returned value, newest first
IirCall(Samples, B, A) ==
    /\ calc.calls < MaxFilterCalls
    /\ \E meas \in Samples, do_filter \in BOOLEAN :
          LET f == iir_filter(meas, calc.inputs, calc.outputs, do_filter, B, A)
          IN  calc' = [inputs |-> f.inputs, outputs |-> f.outputs,
                       calls |-> calc.calls + 1,
                       samples |-> <<meas>> \o calc.samples,
                       modes |-> <<do_filter>> \o calc.modes,
                       returned |-> <<f.output>> \o calc.returned]
    /\ UNCHANGED simvars

\* (T1 * T0) * T0.inverse()
T2DCancel ==
    T2DCompute("(T1 * T) * T.inverse()",
               T2D_mul(T2D_mul(calc.T1, calc.T), T2D_inverse(calc.T)))


(***************************************************************************)
(* Specifications.                                                         *)
(***************************************************************************)
WheelIn(vnoise, fnoise, speed, body_vel) ==
    [vnoise |-> vnoise, fnoise |-> fnoise,
     motor |-> [speed |-> speed, current |-> 0], body_vel |-> body_vel]

BothWheels(win) == <<win, win>>

HitPair(theta) == [distance |-> BUMP_DIST - 1, theta |-> theta]

\* Spec: the simulator through RoboSim's interface.  Pylons and blue tape
\* strips are added; the wheels turn at 6 rad/s, the body advances 2 mm per
\* physics step, the robot may touch the first object after the Room and a
\* touching object is seen dead ahead or not at all.
SimAddKinds == {"pylon", "tape_blue"}

SimWheelIns == { BothWheels(WheelIn(0, 0, 6, 0)) }

SimPairs == {FarPair, HitPair(0)}

SimMoves == {[position |-> <<20, 0>>, angle |-> 0]}

SimCommands == {<<0, 0>>, <<500, 0>>}

SimLogNames == {"log_1.npz"}

Init == InitWith({FALSE}, {FALSE})

Next ==
    \/ Add(SimAddKinds, MaxCalls)
    \/ SetDims(MaxCalls)
    \/ Clear(MaxCalls)
    \/ Reset(MaxCalls)
    \/ LoadSvg(MaxCalls)
    \/ SetDesiredVel(SimCommands, MaxCalls)
    \/ UpdateBegin(SimLogNames)
    \/ UpdateSimObjects(SimWheelIns, SimPairs)
    \/ PreSolve("step", {3})
    \/ UpdateStep(SimMoves)
    \/ UpdateFinish

Spec == Init /\ [][Next]_vars

\* SpecPerfect: the same with perfect_odometry set.
InitPerfect == InitWith({TRUE}, {FALSE})

SpecPerfect == InitPerfect /\ [][Next]_vars

InitRobot == InitWith({FALSE}, {FALSE})

\* SpecCtl: the wheel velocity controller under the harness.  A tick is
\* 10 ms with the motors then at 4 rad/s (140 mm/s, below the stall
\* threshold), or 20 ms with the motors then at 6 rad/s and a measurement
\* noise of 20 mm/s; the command is stop or spin at 1 m/s per wheel.
CtlTicks == { <<10, BothWheels(WheelIn(0, 0, 4, 0))>>,
              <<20, BothWheels(WheelIn(20, 0, 6, 0))>> }

CtlCommands == {<<0, 0>>, <<0, 2000>>}

NextCtl ==
    \/ RobotSimUpdate(CtlTicks, {FarPair}, MaxRobotTicks)
    \/ SetDesiredVel(CtlCommands, MaxCommands)
    \/ SetMotorsEnabled
    \/ RobotInitialize(SpawnPoses)

SpecCtl == InitRobot /\ [][NextCtl]_vars

\* SpecForce: the wheel forces under the harness.  Ticks of 10 ms; the
\* motor is at 4 rad/s with the body at 140, 130 or 0 mm/s, or stopped with
\* the body at 140 mm/s and a force noise of -3 N.
ForceTicks == { <<10, BothWheels(WheelIn(0, 0, 4, 140))>>,
                <<10, BothWheels(WheelIn(0, 0, 4, 130))>>,
                <<10, BothWheels(WheelIn(0, 0, 4, 0))>>,
                <<10, BothWheels(WheelIn(0, -3000, 0, 140))>> }

NextForce == RobotSimUpdate(ForceTicks, {FarPair}, MaxRobotTicks)

SpecForce == InitRobot /\ [][NextForce]_vars

\* SpecOdom: dead reckoning under the harness.  A tick is 10 ms with both
\* motors then at 6 rad/s, or 20 ms with the left at 4 rad/s (and a
\* measurement noise of 20 mm/s) and the right at 6 rad/s.
OdomTicks == { <<10, BothWheels(WheelIn(0, 0, 6, 0))>>,
               <<20, <<WheelIn(20, 0, 4, 0), WheelIn(0, 0, 6, 0)>> >> }

NextOdom ==
    \/ RobotSimUpdate(OdomTicks, {FarPair}, MaxRobotTicks)
    \/ RobotInitialize(SpawnPoses)

SpecOdom == InitRobot /\ [][NextOdom]_vars

\* SpecBump: the bump sensor under the harness.  The environment is loaded
\* once; the robot may touch its pylon and wall; a near pair is seen at one
\* of the angles around the sectors' ends, or exactly at BUMP_DIST.
BumpTicks == { <<10, BothWheels(WheelIn(0, 0, 0, 0))>> }

BumpThetas == {-71, -70, -25, 0, 20, 25, 26, 70, 71}

BumpPairs == {HitPair(theta) : theta \in BumpThetas}
                \cup {[distance |-> BUMP_DIST, theta |-> 0]}

NextBump ==
    \/ LoadOnce
    \/ PreSolve("idle", {3, 4})
    \/ RobotSimUpdate(BumpTicks, BumpPairs, MaxBumpTicks)

SpecBump == InitRobot /\ [][NextBump]_vars

\* SpecBuild: the structural calls alone, with every kind of object.
BuildKinds == {"box", "pylon", "ball", "wall", "tape_blue", "tape_silver"}

NextBuild ==
    \/ Add(BuildKinds, MaxBuildCalls)
    \/ SetDims(MaxBuildCalls)
    \/ Clear(MaxBuildCalls)
    \/ Reset(MaxBuildCalls)
    \/ LoadSvg(MaxBuildCalls)

SpecBuild == InitRobot /\ [][NextBuild]_vars

\* SpecObs: observers.  Observers are added, the environment is loaded,
\* the simulator is reset and updated; the wheels and the body as in Spec,
\* nothing touches the robot.
NextObs ==
    \/ AddObserver(MaxObsCalls)
    \/ LoadSvg(MaxObsCalls)
    \/ Reset(MaxObsCalls)
    \/ UpdateBegin(SimLogNames)
    \/ UpdateSimObjects(SimWheelIns, {FarPair})
    \/ UpdateStep(SimMoves)
    \/ UpdateFinish

SpecObs == InitRobot /\ [][NextObs]_vars

\* SpecLog: the DataLog under the harness, with two file names.
LogNames == {"log_1.npz", "log_2.npz"}

NextLog ==
    \/ LogBegin(LogNames)
    \/ LogAppend
    \/ LogWrite
    \/ LogFinish

SpecLog == InitRobot /\ [][NextLog]_vars

\* SpecT2D: Transform2D under the harness.  The operands are transforms T and
\* T1 and a point p, with angles on the grid of the cosine table (some beyond
\* a half turn, some negative) and positions up to a metre from the origin.
GridStep == QuarterTurn \div 16

T2DAngles == {0, GridStep, 5 * GridStep, QuarterTurn, -3 * GridStep,
              2 * QuarterTurn + 7 * GridStep}

T2DPoints == {<<0, 0>>, <<1000, 0>>, <<-2000, 3000>>, <<10000, -7000>>}

T2DTransforms == {Transform2D(p, a) : p \in T2DPoints, a \in T2DAngles}

InitT2D ==
    /\ InitSim({FALSE}, {FALSE})
    /\ \E T \in T2DTransforms, T1 \in T2DTransforms, p \in T2DPoints :
          calc = [T |-> T, T1 |-> T1, p |-> p, op |-> "None", result |-> <<>>]

NextT2D ==
    \/ T2DSelfInverse
    \/ T2DInvFwd
    \/ T2DFwdInv
    \/ T2DCancel

SpecT2D == InitT2D /\ [][NextT2D]_vars

\* SpecIir: iir_filter under the harness, with a second-order filter
\* (coefficients in 1e-4) so that a shift moves more than one element; the
\* histories start as numpy.zeros.
IirB == <<2500, 5000, 2500>>

IirA == <<-3000, 1000>>

IirSamples == {0, 1000, -500}

InitIir ==
    /\ InitSim({FALSE}, {FALSE})
    /\ calc = [inputs |-> [k \in 1..Len(IirB) |-> 0],
               outputs |-> [k \in 1..Len(IirA) |-> 0],
               calls |-> 0, samples |-> <<>>, modes |-> <<>>, returned |-> <<>>]

NextIir == IirCall(IirSamples, IirB, IirA)

SpecIir == InitIir /\ [][NextIir]_vars

\* SpecVars: add_variables under the harness, on the simulator's DataLog
\* (which has the Robot's LOG_NAMES); a call names one or two variables.
VarNames == {"time", "battery", "range", "bump.left"}

VarLists == {<<a>> : a \in VarNames} \cup {<<a, b>> : a \in VarNames, b \in VarNames}

NextVars == LogAddVariables(VarLists)

SpecVars == InitRobot /\ [][NextVars]_vars

(***************************************************************************)
(* Properties.                                                             *)
(***************************************************************************)
\* C1: in every reachable state objects[0] is the Robot made at
\* construction and objects[1] the Room made at construction, and the array
\* the Robot registered with the DataLog is still the Robot's log_vars
C1_RobotAndRoomFirst ==
    /\ Len(sim.objects) >= 2
    /\ sim.objects[1] = RobotId
    /\ sim.objects[2] = RoomId
    /\ sim.simobjs[RobotId].kind = "robot"
    /\ sim.simobjs[RoomId].kind = "room"
    /\ \E g \in DOMAIN sim.datalog.groups :
          sim.datalog.groups[g].array = sim.robot.log_vars_array

\* an environment was loaded, an update ran and reset(True) reloaded it
C1_Witness ==
    /\ h_op = "reset(True)"
    /\ ticks > 0
    /\ Len(sim.objects) > 2
    /\ sim.svg_file # "None"

RECURSIVE RunLength(_)
RunLength(s) ==
    IF s = <<>> \/ ~s[Len(s)] THEN 0
    ELSE 1 + RunLength(SubSeq(s, 1, Len(s) - 1))

\* the PI output of the last tick (Kp = 100 V per m/s, Ki = 200 V per m, in
\* the model's units), clamped to the nominal voltage
ClampedPI(idx) ==
    LET err == sim.robot.desired_wheel_vel[idx] - h_last.wheel[idx].odom_wheel_vel
        v   == 1000 * err + 2 * h_last.wheel[idx].vel_int
    IN  IF v > V_nominal THEN V_nominal ELSE IF v < -V_nominal THEN -V_nominal ELSE v

\* the last tick was tick 1 to 5 of a run of stalled ticks, or the first
\* tick after a run ended
PIExpected(idx) ==
    LET n == RunLength(h_stall[idx])
    IN  \/ n \in 1..5
        \/ n = 0 /\ Len(h_stall[idx]) >= 2 /\ h_stall[idx][Len(h_stall[idx]) - 1]

\* C3 as stated: the stall counter is the length of the current run of
\* ticks with desired speed 0 and |measured speed| < 0.15 m/s; the command
\* voltage is 0 from the 6th tick of the run on, and the clamped PI output on
\* ticks 1 to 5 of the run and on the first tick after it
C3_Original ==
    \A idx \in 1..2 :
        /\ sim.robot.wheel_stopped_count[idx] = RunLength(h_stall[idx])
        /\ h_tick > 0 =>
              /\ RunLength(h_stall[idx]) >= 6 => h_last.wheel[idx].V_cmd = 0
              /\ PIExpected(idx) => h_last.wheel[idx].V_cmd = ClampedPI(idx)

\* C3 (amended): the same while the motors are enabled; on a tick with the
\* motors disabled the command voltage is 0 whatever the run
C3_StallCutoff ==
    \A idx \in 1..2 :
        /\ sim.robot.wheel_stopped_count[idx] = RunLength(h_stall[idx])
        /\ h_tick > 0 =>
              /\ RunLength(h_stall[idx]) >= 6 => h_last.wheel[idx].V_cmd = 0
              /\ PIExpected(idx) /\ h_last.motors_enabled =>
                    h_last.wheel[idx].V_cmd = ClampedPI(idx)
              /\ ~h_last.motors_enabled => h_last.wheel[idx].V_cmd = 0

\* the 7th tick of a run with the motors enabled: the voltage is cut
\* although the PI output is not zero
C3_Witness ==
    /\ h_tick > 0
    /\ h_last.motors_enabled
    /\ RunLength(h_stall[1]) = 7
    /\ sim.robot.wheel_stopped_count[1] = 7
    /\ ClampedPI(1) # 0
    /\ h_last.wheel[1].V_cmd = 0

\* C4: on every tick and for each wheel the force applied to the body at the
\* wheel contact point, which is also the recorded wheel force, is at most
\* max(0, WHEEL_FORCE_MAX + noise) and at most the unclamped force in
\* magnitude
C4_AppliedForceClamped ==
    h_tick > 0 =>
        \A idx \in 1..2 :
            LET w     == h_last.wheel[idx]
                limit == IF 2000 + w.fnoise > 0 THEN 2000 + w.fnoise ELSE 0
            IN  /\ Abs(sim.applied[idx]) <= limit
                /\ Abs(sim.applied[idx]) <= Abs(w.F)
                /\ sim.robot.wheel_forces[idx] = sim.applied[idx]

\* C5: without perfect odometry, a Robot.sim_update whose number, counted
\* from the last Robot.initialize, is not a multiple of 4 leaves the odometry
\* pose (position and angle) exactly as it was
C5_OdomOnlyOnMultiples ==
    [][ (/\ ~sim.robot.perfect_odometry
         /\ h_tick' = h_tick + 1
         /\ h_tick' % 4 # 0)
        => sim'.robot.odom_pose = sim.robot.odom_pose ]_vars

\* the 4th tick after an initialize that came after 2 ticks: the pose has
\* advanced from identity
C5_Witness ==
    /\ ~sim.robot.perfect_odometry
    /\ h_op = "sim_update"
    /\ h_tick = 4
    /\ ticks = 6
    /\ sim.robot.odom_pose # Identity2D

\* inverse(spawn pose) composed with the body's current pose
GroundTruthPose ==
    T2D_mul(T2D_inverse(Transform2D(sim.robot.orig_position, sim.robot.orig_angle)),
            Transform2D(sim.body.position, sim.body.angle))

\* C6: with perfect_odometry set, after every sub-step of update() the
\* odometry pose is inverse(spawn pose) composed with the body's current
\* pose, and in every log row the odometry pose is the ground-truth pose of
\* the same row
C6_PerfectOdomIsTruth ==
    sim.robot.perfect_odometry =>
        /\ (h_op = "update" /\ h_tick > 0 /\ pc \in {"sim_update", "finish", "idle"})
              => sim.robot.odom_pose = GroundTruthPose
        /\ \A k \in DOMAIN sim.datalog.current_log :
              \A g \in DOMAIN sim.datalog.current_log[k] :
                  sim.datalog.current_log[k][g].pose_odom
                      = sim.datalog.current_log[k][g].pose_true

\* the sectors as documented: left, center, right, in degrees
SectorOf(i) == << <<20, 70>>, <<-25, 25>>, <<-70, -25>> >>[i]

\* the shape pairs the last evaluation found nearer than BUMP_DIST (1 mm)
NearPairs ==
    {ck \in UNION {{<<c, k>> : k \in DOMAIN h_last.contacts[c]} : c \in h_last.visited} :
        h_last.contacts[ck[1]][ck[2]].distance < 1000}

ThetaOf(ck) == h_last.contacts[ck[1]][ck[2]].theta

\* C7: after a Robot.sim_update, flag i is 1 only if a collider of that
\* evaluation had a shape pair nearer than BUMP_DIST at an angle in sector i,
\* whatever the flags were before; with no collider all three flags are 0
C7_BumpOnlyFromCurrentHits ==
    /\ h_tick = 0 => sim.robot.bump = <<0, 0, 0>>
    /\ h_tick > 0 =>
          /\ \A i \in 1..3 :
                sim.robot.bump[i] = 1 =>
                    \E ck \in NearPairs :
                        ThetaOf(ck) >= SectorOf(i)[1] /\ ThetaOf(ck) <= SectorOf(i)[2]
          /\ h_last.visited = {} => sim.robot.bump = <<0, 0, 0>>

\* a tick that started with left and center set and ended with right alone,
\* the collider still near
C7_Witness ==
    /\ h_tick = 2
    /\ h_last.bump_before = <<1, 1, 0>>
    /\ sim.robot.bump = <<0, 0, 1>>
    /\ Cardinality(NearPairs) = 1

\* C8: with a single near pair, at angle theta, each flag is 1 exactly when
\* theta lies in its sector, ends included
C8_SectorsInclusive ==
    (h_tick > 0 /\ Cardinality(NearPairs) = 1) =>
        \A ck \in NearPairs : \A i \in 1..3 :
            sim.robot.bump[i] = 1
                <=> (ThetaOf(ck) >= SectorOf(i)[1] /\ ThetaOf(ck) <= SectorOf(i)[2])

\* a single near pair at exactly -25 degrees: center and right are both set
C8_Witness ==
    /\ h_tick > 0
    /\ Cardinality(NearPairs) = 1
    /\ \A ck \in NearPairs : ThetaOf(ck) = -25
    /\ sim.robot.bump = <<0, 1, 1>>

\* what clear() and reset() leave besides the objects
Rewound(S) ==
    /\ S.sim_time = 0
    /\ S.sim_ticks = 0
    /\ ~S.datalog.logging

\* C9: clear() leaves objects = [Robot, Room], every object that was at
\* index >= 2 without a body, no tape strips, sim_time = sim_ticks = 0, no
\* active log, and a larger modification counter
C9_ClearPostcondition ==
    [][ (h_op' = "clear" /\ calls' = calls + 1) =>
            /\ sim'.objects = <<RobotId, RoomId>>
            /\ \A k \in 3..Len(sim.objects) : sim'.simobjs[sim.objects[k]].body = 0
            /\ DOMAIN sim'.tape_strips = {}
            /\ Rewound(sim')
            /\ sim'.modification_counter > sim.modification_counter ]_vars

\* clear() after an update that logged a row, with a prop that had a body
C9_Witness ==
    /\ h_op = "clear"
    /\ ticks > 0
    /\ \E id \in 3..Len(sim.simobjs) :
          sim.simobjs[id].kind = "pylon" /\ sim.simobjs[id].body = 0
    /\ sim.objects = <<RobotId, RoomId>>

\* C10: reset(reload_svg=False) keeps the objects and their order, rewinds
\* sim_time and sim_ticks, and leaves the Robot with a body at its spawn pose
\* and its odometry, controller, filters, command, motors, bump flags and
\* colliders zero or empty
C10_ResetInPlace ==
    [][ (h_op' = "reset(False)" /\ calls' = calls + 1) =>
            /\ sim'.objects = sim.objects
            /\ Rewound(sim')
            /\ sim'.simobjs[RobotId].body # 0
            /\ sim'.body = [position |-> sim.robot.orig_position,
                            angle |-> sim.robot.orig_angle]
            /\ sim'.robot.odom_pose = [position |-> <<0, 0>>, angle |-> 0]
            /\ sim'.robot.odom_tick = 0
            /\ sim'.robot.wheel_vel_integrator = <<0, 0>>
            /\ sim'.robot.wheel_stopped_count = <<0, 0>>
            /\ sim'.robot.desired_linear_angular_vel_raw = << <<0, 0>>, <<0, 0>> >>
            /\ sim'.robot.desired_linear_angular_vel_filtered = << <<0>>, <<0>> >>
            /\ sim'.robot.motor_voltages_raw = << <<0, 0>>, <<0, 0>> >>
            /\ sim'.robot.motor_voltages_filtered = << <<0>>, <<0>> >>
            /\ sim'.robot.desired_linear_angular_vel = <<0, 0>>
            /\ sim'.robot.motor_state = <<[speed |-> 0, current |-> 0],
                                          [speed |-> 0, current |-> 0]>>
            /\ sim'.robot.bump = <<0, 0, 0>>
            /\ sim'.robot.colliders = {} ]_vars

\* reset(False) after an update; the environment's pylon and wall are
\* still listed and the robot stands at the spawn pose of the environment
C10_Witness ==
    /\ h_op = "reset(False)"
    /\ ticks > 0
    /\ Len(sim.objects) > 2
    /\ sim.body = [position |-> <<10000, 20000>>, angle |-> QuarterTurn]
    /\ sim.sim_ticks = 0

\* the add_* calls, and what each constructs
AddObjectCalls == {"add_box", "add_pylon", "add_ball", "add_wall"}

AddTapeCalls == {"add_tape_strip(blue)", "add_tape_strip(silver)"}

KindAdded(op) ==
    CASE op = "add_box" -> "box"
      [] op = "add_pylon" -> "pylon"
      [] op = "add_ball" -> "ball"
      [] op = "add_wall" -> "wall"
      [] op \in AddTapeCalls -> "tape"

ColourOf(op) == IF op = "add_tape_strip(blue)" THEN "blue" ELSE "silver"

\* the step appends one object, made by this call and of the call's kind,
\* keeps the entries before it, increments the counter and forgets the
\* cached description
AppendsOne(op) ==
    /\ Len(sim'.objects) = Len(sim.objects) + 1
    /\ SubSeq(sim'.objects, 1, Len(sim.objects)) = sim.objects
    /\ sim'.objects[Len(sim'.objects)] = Len(sim.simobjs) + 1
    /\ Len(sim'.simobjs) = Len(sim.simobjs) + 1
    /\ sim'.simobjs[Len(sim'.simobjs)].kind = KindAdded(op)
    /\ sim'.modification_counter = sim.modification_counter + 1
    /\ sim'.svg_file = "None"

\* C11 as stated: every add_box, add_pylon, add_ball, add_wall and
\* add_tape_strip call appends exactly one newly constructed object at the
\* end of objects, increments the modification counter and sets svg_file to
\* None
C11_Original ==
    [][ (h_op' \in AddObjectCalls \cup AddTapeCalls /\ calls' = calls + 1)
            => AppendsOne(h_op') ]_vars

\* C11 (amended): the same for add_box, add_pylon, add_ball, add_wall and for
\* add_tape_strip with a colour that has no TapeStrips object yet; an
\* add_tape_strip with a colour that has one constructs and appends nothing,
\* gives that object one more point list, increments the counter and leaves
\* svg_file as it was
C11_AddAppendsOrExtends ==
    [][ (h_op' \in AddObjectCalls \cup AddTapeCalls /\ calls' = calls + 1) =>
            IF h_op' \in AddTapeCalls /\ ColourOf(h_op') \in DOMAIN sim.tape_strips
            THEN LET strip == sim.tape_strips[ColourOf(h_op')]
                 IN  /\ sim'.objects = sim.objects
                     /\ Len(sim'.simobjs) = Len(sim.simobjs)
                     /\ sim'.simobjs[strip].point_lists = sim.simobjs[strip].point_lists + 1
                     /\ sim'.modification_counter = sim.modification_counter + 1
                     /\ sim'.svg_file = sim.svg_file
                     /\ sim'.tape_strips = sim.tape_strips
            ELSE /\ AppendsOne(h_op')
                 /\ h_op' \in AddTapeCalls =>
                       /\ ColourOf(h_op') \in DOMAIN sim'.tape_strips
                       /\ sim'.tape_strips[ColourOf(h_op')] = Len(sim'.simobjs) ]_vars

\* a blue strip added to a loaded environment that has blue strips: the
\* object has a third point list, the list of objects is as loaded and the
\* description is still cached
C11_Witness ==
    /\ h_op = "add_tape_strip(blue)"
    /\ sim.svg_file # "None"
    /\ "blue" \in DOMAIN sim.tape_strips
    /\ sim.simobjs[sim.tape_strips["blue"]].point_lists = 3
    /\ Len(sim.objects) = 5

\* the sub-steps made so far, inside update() and between calls
TicksExpected ==
    physics_ticks_per_update * h_updates
        + (IF pc \in {"sim_update", "step", "finish"} THEN substep ELSE 0)

UnclampedPI(idx) ==
    LET err == sim.robot.desired_wheel_vel[idx] - h_last.wheel[idx].odom_wheel_vel
    IN  MOTOR_VEL_KP * err + MOTOR_VEL_KI * h_last.wheel[idx].vel_int

\* C13: on every tick and for each wheel the command voltage, which is the
\* value shifted into the voltage filter's input history, is at most the
\* nominal voltage in magnitude
C13_CommandVoltageBounded ==
    h_tick > 0 =>
        \A idx \in 1..2 :
            /\ h_last.wheel[idx].V_cmd <= V_nominal
            /\ h_last.wheel[idx].V_cmd >= -V_nominal
            /\ sim.robot.motor_voltages_raw[idx][1] = h_last.wheel[idx].V_cmd

\* a tick with the motors enabled and the wheels commanded to 1 m/s in
\* opposite directions: the PI outputs are beyond the nominal voltage on
\* both sides and the commands sit at the limits
C13_Witness ==
    /\ h_tick > 0
    /\ h_last.motors_enabled
    /\ UnclampedPI(1) < -V_nominal
    /\ UnclampedPI(2) > V_nominal
    /\ h_last.wheel[1].V_cmd = -V_nominal
    /\ h_last.wheel[2].V_cmd = V_nominal

Sign(x) == IF x > 0 THEN 1 ELSE IF x < 0 THEN -1 ELSE 0

\* the skid force update_log would write for wheel idx
LoggedSkid(idx) == Robot_update_log(sim).robot.log_vars.wheel_skid_force[idx]

\* the requested force of the last tick is beyond the traction limit
Clamping(idx) == Abs(h_last.wheel[idx].F) > h_last.wheel[idx].F_max

\* C14: the recorded skid force is the unclamped force minus the
\* clamped force: 0 within the traction limit, and beyond it nonzero with
\* the sign of the unclamped force
C14_SkidIsUnclampedMinusClamped ==
    h_tick > 0 =>
        \A idx \in 1..2 :
            LET w == h_last.wheel[idx]
            IN  /\ LoggedSkid(idx) = sim.robot.wheel_skid_forces[idx]
                /\ LoggedSkid(idx) = w.F - w.Fclamp
                /\ ~Clamping(idx) => LoggedSkid(idx) = 0
                /\ Clamping(idx) => Sign(LoggedSkid(idx)) = Sign(w.F)

\* the calls that change the structure
StructuralCalls ==
    AddObjectCalls \cup AddTapeCalls \cup {"set_dims", "clear", "reset(True)", "reset(False)"}

\* C15: the modification counter never decreases; it grows on every add_*,
\* set_dims, clear and reset call, and no step of update() and no contact
\* callback changes it
C15_CounterMonotone ==
    /\ [][ sim'.modification_counter >= sim.modification_counter ]_vars
    /\ [][ (calls' = calls + 1 /\ h_op' \in StructuralCalls)
              => sim'.modification_counter > sim.modification_counter ]_vars
    /\ [][ (pc # "idle" \/ pc' # "idle")
              => sim'.modification_counter = sim.modification_counter ]_vars

\* an environment was loaded and a blue strip added to its blue strips (six
\* modifications); then an update ran in which the robot touched the pylon
C15_Witness ==
    /\ pc = "idle"
    /\ h_op = "update"
    /\ sim.robot.colliders # {}
    /\ sim.svg_file # "None"
    /\ sim.modification_counter = 6

\* note n is the call of hook on observer o with the simulator in state S
IsNote(n, o, hook, S) == n.observer = o /\ n.hook = hook /\ n.seen = S

\* C16: add_observer calls register and then initialize on the new
\* observer; every reset, reloading or in place, calls initialize exactly
\* once on every registered observer, with the simulator as the reset
\* leaves it (objects reloaded or reset, time rewound), and so before any
\* later update
C16_ObserverInitialize ==
    /\ [][ (h_op' = "add_observer" /\ calls' = calls + 1) =>
              LET o == sim'.observers[Len(sim'.observers)]
              IN  /\ sim'.observers = Append(sim.observers, o)
                  /\ \A k \in DOMAIN sim.observers : sim.observers[k] # o
                  /\ Len(h_notes') = 2
                  /\ IsNote(h_notes'[1], o, "register", sim')
                  /\ IsNote(h_notes'[2], o, "initialize", sim') ]_vars
    /\ [][ (h_op' \in {"reset(True)", "reset(False)"} /\ calls' = calls + 1) =>
              /\ sim'.observers = sim.observers
              /\ Len(h_notes') = Len(sim.observers)
              /\ \A k \in DOMAIN sim.observers :
                    /\ IsNote(h_notes'[k], sim.observers[k], "initialize", sim')
                    /\ h_notes'[k].seen.sim_ticks = 0
                    /\ h_notes'[k].seen.simobjs[RobotId].body # 0
                    /\ h_notes'[k].at = ticks' ]_vars
    /\ [][ (h_op' = "update" /\ updates' = updates + 1) =>
              \A k \in DOMAIN h_notes' : h_notes'[k].hook = "pre_update" ]_vars

\* a reset that reloaded the environment after an update, with an observer
\* registered: the observer was called once and saw the reloaded objects
C16_Witness ==
    /\ h_op = "reset(True)"
    /\ ticks > 0
    /\ sim.svg_file # "None"
    /\ Len(sim.observers) = 1
    /\ Len(h_notes) = 1
    /\ h_notes[1].seen.objects = <<1, 2, 6, 7, 8>>

\* C17: in one update(), pre_update is called on every observer, in
\* registration order, with logging started and before the update's first
\* sim_update; post_update is called on every observer, in registration
\* order, after the last sub-step and after the Robot's log variables were
\* refreshed, and before the row is appended
C17_ObserverUpdateHooks ==
    /\ [][ (h_op' = "update" /\ updates' = updates + 1 /\ pc' # "raised") =>
              /\ Len(h_notes') = Len(sim.observers)
              /\ \A k \in DOMAIN sim.observers :
                    /\ IsNote(h_notes'[k], sim.observers[k], "pre_update", sim')
                    /\ h_notes'[k].seen.datalog.logging
                    /\ h_notes'[k].at = ticks'
              /\ pc' = "sim_update" /\ substep' = 0 ]_vars
    /\ [][ (pc = "sim_update" /\ substep = 0 /\ sim.observers # <<>>)
              => ticks' = h_notes[1].at + 1 ]_vars
    /\ [][ (pc = "finish" /\ pc' = "idle") =>
              LET n == Len(sim.observers)
              IN  /\ Len(h_notes') = 2 * n
                  /\ SubSeq(h_notes', 1, n) = h_notes
                  /\ \A k \in 1..n :
                        LET seen == h_notes'[n + k].seen
                        IN  /\ h_notes'[n + k].observer = sim.observers[k]
                            /\ h_notes'[n + k].hook = "post_update"
                            /\ h_notes'[n + k].at = ticks
                            /\ h_notes'[n + k].at = h_notes'[k].at + physics_ticks_per_update
                            /\ seen.sim_ticks = sim'.sim_ticks
                            /\ seen.body = sim.body
                            /\ seen.robot.log_vars.pose_true =
                                   T2D_mul(sim.robot.initial_pose_inv,
                                           Transform2D(sim.body.position, sim.body.angle))
                            /\ seen.datalog.log_rows = sim.datalog.log_rows
                            /\ sim'.datalog.log_rows = seen.datalog.log_rows + 1
                            /\ sim'.datalog.current_log[sim'.datalog.log_rows][1]
                                   = seen.robot.log_vars ]_vars

\* the second update of a log with two observers: four hooks were called
C17_Witness ==
    /\ pc = "idle"
    /\ h_op = "update"
    /\ Len(sim.observers) = 2
    /\ Len(h_notes) = 4
    /\ sim.datalog.log_rows = 2
    /\ h_notes[1].seen.datalog.log_rows = 1
    /\ h_notes[3].observer = 1
    /\ h_notes[4].observer = 2

\* the objects listed after the Room
Props(S) == {S.objects[k] : k \in 3..Len(S.objects)}

\* C18: reset(reload_svg=True) with a cached description leaves none of the
\* earlier objects after the Room in the list and none of them with a body;
\* the objects after the Room were all constructed by the reload, from the
\* description's items; the Room has a newly created body; the Robot is the
\* same object, with a new body at the description's spawn pose and its
\* state re-initialized; sim_time and sim_ticks are 0
C18_ReloadRebuilds ==
    [][ (h_op' = "reset(True)" /\ calls' = calls + 1 /\ sim.svg_file # "None") =>
            /\ \A id \in Props(sim) :
                  sim'.simobjs[id].body = 0 /\ id \notin Props(sim')
            /\ \A id \in Props(sim') : id > Len(sim.simobjs)
            /\ [k \in 1..(Len(sim'.objects) - 2) |-> sim'.simobjs[sim'.objects[k + 2]].kind]
                  = <<"pylon", "wall", "tape">>
            /\ sim'.simobjs[sim'.tape_strips["blue"]].point_lists = 2
            /\ sim'.objects[1] = RobotId /\ sim'.objects[2] = RoomId
            /\ sim'.simobjs[RoomId].body > sim.bodies_created
            /\ sim'.simobjs[RobotId].body > sim.bodies_created
            /\ sim'.body = [position |-> Svg(sim.svg_file).robot_init_position,
                            angle |-> Svg(sim.svg_file).robot_init_angle]
            /\ sim'.robot.orig_position = Svg(sim.svg_file).robot_init_position
            /\ sim'.robot.orig_angle = Svg(sim.svg_file).robot_init_angle
            /\ sim'.robot.odom_pose = [position |-> <<0, 0>>, angle |-> 0]
            /\ sim'.robot.odom_tick = 0
            /\ sim'.robot.colliders = {}
            /\ sim'.robot.log_vars_array = sim.robot.log_vars_array
            /\ sim'.svg_file = sim.svg_file
            /\ sim'.sim_time = 0
            /\ sim'.sim_ticks = 0 ]_vars

\* a reloading reset after an update in the loaded environment: the first
\* pylon, wall and strips are gone and three new objects are listed
C18_Witness ==
    /\ h_op = "reset(True)"
    /\ updates > 0
    /\ sim.svg_file # "None"
    /\ sim.objects = <<1, 2, 6, 7, 8>>
    /\ \A id \in 3..5 : sim.simobjs[id].body = 0
    /\ sim.sim_ticks = 0

\* the step is a reset that reloads the description loaded last
FullReload ==
    /\ \A id \in Props(sim) : sim'.simobjs[id].body = 0 /\ id \notin Props(sim')
    /\ \A id \in Props(sim') : id > Len(sim.simobjs)
    /\ sim'.svg_file = h_svg

\* the step is a reset that resets the listed objects in place
InPlaceReset ==
    /\ sim'.objects = sim.objects
    /\ Len(sim'.simobjs) = Len(sim.simobjs)
    /\ \A id \in Props(sim) : HasWorld(sim.simobjs[id].kind) => sim'.simobjs[id].body # 0
    /\ sim'.svg_file = "None"

\* the step is reset(reload_svg=True), the call before it was an add_* or
\* set_dims, and a description was loaded earlier
ResetAfterMutation ==
    /\ h_op' = "reset(True)" /\ calls' = calls + 1
    /\ h_op \in AddObjectCalls \cup AddTapeCalls \cup {"set_dims"}
    /\ h_svg # "None"

\* C19 as stated: once a description has been loaded, a reset(reload_svg=
\* True) that follows an add_* or set_dims call reloads the description
C19_Original ==
    [][ ResetAfterMutation => FullReload ]_vars

\* C19 (amended): set_dims, and every add_* call that appends an object,
\* leaves svg_file None, and a reset(reload_svg=True) that follows it resets
\* the listed objects in place; an add_tape_strip that appends nothing
\* leaves svg_file as it was, and reset(reload_svg=True) reloads exactly
\* when svg_file is set
C19_MutationForcesInPlace ==
    /\ [][ (calls' = calls + 1 /\
             \/ h_op' \in AddObjectCalls \cup {"set_dims"}
             \/ h_op' \in AddTapeCalls /\ ColourOf(h_op') \notin DOMAIN sim.tape_strips)
              => sim'.svg_file = "None" ]_vars
    /\ [][ ResetAfterMutation =>
              IF sim.svg_file = "None" THEN InPlaceReset ELSE FullReload ]_vars

\* load_svg, add_box, reset(True): the box and the loaded objects are still
\* listed and no description is cached
C19_Witness ==
    /\ h_op = "reset(True)"
    /\ h_svg # "None"
    /\ sim.svg_file = "None"
    /\ sim.objects = <<1, 2, 3, 4, 5, 6>>
    /\ sim.simobjs[6].kind = "box"
    /\ sim.simobjs[6].body # 0

\* the step is a call of the DataLog's method op
LogStep(op) == h_op' = op /\ calls' = calls + 1

\* C20: is_logging() is true exactly when begin_log() has been called with
\* no write_log() or finish() since; finish() while logging ends the session
\* and returns the file name begin_log() gave (no current log, log_rows 0);
\* finish() while not logging returns None and changes nothing, so a second
\* finish() in a row is a no-op; begin_log() while logging and
\* append_log_row() while not logging fail their assertions
C20_DataLogSession ==
    /\ [](DataLog_is_logging(sim.datalog) <=> h_began)
    /\ [][ LogStep("finish") =>
              IF DataLog_is_logging(sim.datalog)
              THEN /\ h_ret' = sim.datalog.current_filename
                   /\ h_ret' \in LogNames
                   /\ ~DataLog_is_logging(sim'.datalog)
                   /\ sim'.datalog.log_rows = 0
                   /\ sim'.datalog.current_log = <<>>
                   /\ sim'.datalog.current_filename = "None"
              ELSE h_ret' = "None" /\ sim' = sim ]_vars
    /\ [][ (LogStep("finish") /\ h_op = "finish") => (h_ret' = "None" /\ sim' = sim) ]_vars
    /\ [][ LogStep("begin_log") =>
              IF DataLog_is_logging(sim.datalog)
              THEN h_ret' = "AssertionError" /\ sim' = sim
              ELSE /\ h_ret' \in LogNames
                   /\ sim'.datalog.current_filename = h_ret'
                   /\ DataLog_is_logging(sim'.datalog) ]_vars
    /\ [][ LogStep("append_log_row") =>
              IF DataLog_is_logging(sim.datalog)
              THEN sim'.datalog.log_rows = sim.datalog.log_rows + 1
              ELSE h_ret' = "AssertionError" /\ sim' = sim ]_vars

\* the fourth call is a finish() that ended a session begun under the
\* second file name, and returned that name
C20_Witness ==
    /\ h_op = "finish"
    /\ h_ret = "log_2.npz"
    /\ calls = 4
    /\ ~DataLog_is_logging(sim.datalog)
    /\ sim.datalog.log_rows = 0

\* the names of all groups, in registration order
RECURSIVE RegisteredNames(_)
RegisteredNames(groups) ==
    IF groups = <<>> THEN <<>>
    ELSE RegisteredNames(SubSeq(groups, 1, Len(groups) - 1))
             \o groups[Len(groups)].names

\* C21: after any sequence of add_variables calls all registered variable
\* names are pairwise distinct (a name list that holds a registered name, or
\* the same name twice, is refused), the name table has exactly the
\* registered names, and a refused call changes nothing.
C21_NamesDistinct ==
    /\ [](LET all == RegisteredNames(sim.datalog.groups)
          IN  /\ \A i, j \in DOMAIN all : i # j => all[i] # all[j]
              /\ DOMAIN sim.datalog.variables = {all[i] : i \in DOMAIN all}
              /\ sim.datalog.total_variables = 1 + Len(all))
    /\ [][h_op' = "add_variables" /\ h_ret' = "AssertionError"
            => sim'.datalog = sim.datalog]_vars

\* C22 as stated: T * T.inverse() is exactly the identity, both round trips
\* of a point return exactly the point, and (T1 * T) * T.inverse() is
\* exactly T1.
C22_Original ==
    /\ calc.op = "T * T.inverse()" => calc.result = Identity2D
    /\ calc.op = "T.transform_inv(T.transform_fwd(p))" => calc.result = calc.p
    /\ calc.op = "T.transform_fwd(T.transform_inv(p))" => calc.result = calc.p
    /\ calc.op = "(T1 * T) * T.inverse()" => calc.result = calc.T1

\* the round-off of rotating a vector forth and back: the rounding of the
\* stored components and of the cosines, which grows with the vector
RoundOff(v) == 2 + (Abs(v[1]) + Abs(v[2])) \div 500

Near(u, v, tol) == Abs(u[1] - v[1]) <= tol /\ Abs(u[2] - v[2]) <= tol

\* C22 (amended): T * T.inverse() has angle exactly 0 and a position within
\* round-off of zero; both round trips of a point return the point within
\* round-off; (T1 * T) * T.inverse() has T1's position and angle within
\* round-off.
C22_InverseWithinRoundOff ==
    /\ calc.op = "T * T.inverse()" =>
          /\ calc.result.angle = 0
          /\ Near(calc.result.position, <<0, 0>>, RoundOff(calc.T.position))
    /\ calc.op = "T.transform_inv(T.transform_fwd(p))" =>
          Near(calc.result, calc.p, RoundOff(calc.p))
    /\ calc.op = "T.transform_fwd(T.transform_inv(p))" =>
          Near(calc.result, calc.p,
               RoundOff(<<calc.p[1] - calc.T.position[1],
                          calc.p[2] - calc.T.position[2]>>))
    /\ calc.op = "(T1 * T) * T.inverse()" =>
          /\ Abs(calc.result.angle - calc.T1.angle) <= 1   \* a unit of the angle grid
          /\ Near(calc.result.position, calc.T1.position, RoundOff(calc.T.position))

\* a transform a metre away and turned by 5/64 of a turn has been composed
\* onto a turned T1 and cancelled again, and round-off shows in the result
C22_Witness ==
    /\ calc.op = "(T1 * T) * T.inverse()"
    /\ calc.T = Transform2D(<<10000, -7000>>, 5 * GridStep)
    /\ calc.T1 = Transform2D(<<-2000, 3000>>, -3 * GridStep)
    /\ calc.result.position # calc.T1.position

\* the first n of the values seq (newest first), padded with the zeros the
\* history array started with
LastValues(seq, n) == [k \in 1..n |-> IF k <= Len(seq) THEN seq[k] ELSE 0]

\* C23: every iir_filter call, filtering or bypassing, shifts the input
\* history by one and puts the sample at its head, shifts the output history
\* by one and puts the returned value at its head, and keeps both lengths;
\* a bypassing call returns the sample; so whatever the modes of the calls
\* were, the histories hold the latest samples and the latest returned
\* values without a gap.
C23_FilterHistories ==
    /\ [][ /\ Len(calc'.inputs) = Len(calc.inputs)
           /\ Len(calc'.outputs) = Len(calc.outputs)
           /\ calc'.inputs[1] = calc'.samples[1]
           /\ \A k \in 2..Len(calc.inputs) : calc'.inputs[k] = calc.inputs[k - 1]
           /\ calc'.outputs[1] = calc'.returned[1]
           /\ \A k \in 2..Len(calc.outputs) : calc'.outputs[k] = calc.outputs[k - 1]
           /\ ~calc'.modes[1] => calc'.returned[1] = calc'.samples[1] ]_vars
    /\ [](/\ calc.inputs = LastValues(calc.samples, Len(IirB))
          /\ calc.outputs = LastValues(calc.returned, Len(IirA)))

\* a bypassing call between two filtering calls, with three different
\* consecutive values in the input history
C23_Witness ==
    /\ calc.calls = 4
    /\ calc.modes = <<TRUE, FALSE, TRUE, TRUE>>
    /\ calc.inputs = <<1000, -500, 1000>>
    /\ calc.outputs[2] = -500
    /\ calc.outputs[1] # 1000

\* a step is a Robot.sim_update that returned
TickReturned == ticks' = ticks + 1 /\ ~h_last'.raised

C25_ContactInsertsOther ==
    /\ [](\A a, b \in Alive(sim) : a # b =>
             RoboSim_PreSolve(sim, a, b) =
                [sim EXCEPT !.robot.colliders =
                     @ \cup (IF a = RobotId THEN {b}
                             ELSE IF b = RobotId THEN {a} ELSE {})])
    /\ [][~(sim'.robot.colliders \subseteq sim.robot.colliders) =>
            /\ pc = "step" /\ pc' = "step"
            /\ ticks' = ticks /\ substep' = substep
            /\ \E o \in Alive(sim) \ {RobotId} :
                   sim' = [sim EXCEPT !.robot.colliders = @ \cup {o}]]_vars
    /\ [][ticks' = ticks + 1 =>
            /\ pc = "sim_update" /\ pc' \in {"step", "raised"}
            /\ sim'.robot.colliders \subseteq sim.robot.colliders
            /\ h_last'.visited \subseteq sim.robot.colliders]_vars

\* inside the first world.Step of an update, after a sim_update that
\* iterated over an empty set, a contact of the pylon with the robot has
\* inserted the pylon
C25_Witness ==
    /\ pc = "step"
    /\ substep = 0
    /\ h_last.visited = {}
    /\ sim.robot.colliders = {3}
    /\ sim.simobjs[3].kind = "pylon"
    /\ 3 \in DOMAIN h_held /\ h_held[3] = 0

\* the world.Step calls the current update() has completed
StepsDone == sim.sim_ticks - physics_ticks_per_update * h_updates

\* C26: in each sub-step the Robot's sim_update (bump evaluation, odometry
\* advance) runs after the world.Step of that sub-step, so when the log row
\* is written every member of the colliders set, those inserted in the last
\* world.Step included, has been evaluated since.
C26_SensingAfterPhysics ==
    /\ [][ticks' = ticks + 1 => StepsDone = substep + 1]_vars
    /\ [][pc = "finish" /\ pc' = "idle" =>
            sim.robot.colliders \subseteq h_last.visited]_vars

\* the velocity error of wheel idx in the Robot.sim_update just made
TickError(idx) == sim'.robot.desired_wheel_vel[idx] - sim'.robot.odom_wheel_vel[idx]

\* C27: a Robot.sim_update made with the motors disabled commands 0 V to
\* both motors; with the motors enabled or not, it adds error * dt to each
\* integrator and clamps it to MOTOR_VEL_INT_MAX, and it increments each
\* stall counter when the wheel is commanded to stop and measured below the
\* threshold and zeroes it otherwise; Robot.initialize zeroes integrators
\* and stall counters and keeps motors_enabled.
C27_DisabledMotorsStillIntegrate ==
    /\ [][ticks' = ticks + 1 =>
            \A idx \in 1..2 :
                LET sum == sim.robot.wheel_vel_integrator[idx]
                               + TickError(idx) * h_last'.dt
                IN  /\ ~sim.robot.motors_enabled => h_last'.wheel[idx].V_cmd = 0
                    /\ sim'.robot.wheel_vel_integrator[idx] =
                           IF sum > MOTOR_VEL_INT_MAX THEN MOTOR_VEL_INT_MAX
                           ELSE IF sum < -MOTOR_VEL_INT_MAX THEN -MOTOR_VEL_INT_MAX
                           ELSE sum
                    /\ sim'.robot.wheel_stopped_count[idx] =
                           IF /\ sim'.robot.desired_wheel_vel[idx] = 0
                              /\ Abs(sim'.robot.odom_wheel_vel[idx])
                                     < WHEEL_STOPPED_THRESHOLD_VEL
                           THEN sim.robot.wheel_stopped_count[idx] + 1
                           ELSE 0
                    /\ sim'.robot.motors_enabled = sim.robot.motors_enabled]_vars
    /\ [][h_op' = "initialize" /\ calls' = calls + 1 =>
            /\ sim'.robot.wheel_vel_integrator = <<0, 0>>
            /\ sim'.robot.wheel_stopped_count = <<0, 0>>
            /\ sim'.robot.motors_enabled = sim.robot.motors_enabled]_vars

\* with the motors disabled and a spin commanded, a tick has commanded 0 V
\* although the control law gives a voltage, the left integrator has been
\* clamped at its lower bound and the right one has accumulated
C27_Witness ==
    /\ ~sim.robot.motors_enabled
    /\ h_tick >= 2
    /\ ~h_last.motors_enabled
    /\ h_last.wheel[1].V_cmd = 0
    /\ MOTOR_VEL_KP * (sim.robot.desired_wheel_vel[1] - sim.robot.odom_wheel_vel[1])
          + MOTOR_VEL_KI * sim.robot.wheel_vel_integrator[1] # 0
    /\ sim.robot.wheel_vel_integrator[1] = -MOTOR_VEL_INT_MAX
    /\ h_last.wheel[1].vel_int_sum < -MOTOR_VEL_INT_MAX
    /\ sim.robot.wheel_vel_integrator[2] > 0

\* C28: for each wheel, the torque load a Robot.sim_update hands to the
\* motor model is the value stored by the call before (0 on the first call
\* after initialize), and the value it stores for the next call is the motor
\* torque of the negated clamped force, the force applied to the body.
C28_TorqueLoadFromClampedForce ==
    [][ticks' = ticks + 1 =>
         \A idx \in 1..2 :
             /\ h_last'.wheel[idx].torque_load = sim.robot.motor_torques[idx]
             /\ h_tick = 0 => h_last'.wheel[idx].torque_load = 0
             /\ sim'.robot.motor_torques[idx] =
                    motor_torque_from_wheel_tgt_force(-h_last'.wheel[idx].Fclamp)
             /\ sim'.applied[idx] = h_last'.wheel[idx].Fclamp]_vars

\* the objects currently listed by the simulator
Members(S) == {S.objects[k] : k \in DOMAIN S.objects}

\* C29: whenever a Robot.sim_update is about to run, every object in the
\* Robot's colliders set is listed in objects and has a rigid body, so the
\* bump evaluation dereferences no destroyed object - also in an update()
\* that follows a clear() made while the robot touched a prop.
C29_CollidersAlive ==
    [](pc = "sim_update" =>
          \A c \in sim.robot.colliders : c \in Members(sim) /\ c \in Alive(sim))

====
